---- MODULE Spec2Model ----
(***************************************************************************)
(* The client-side authentication layer of errandmate: the AuthClient      *)
(* singleton (src/lib/auth/authClient.ts, in its cookie and its token      *)
(* version), the useAuth hook (src/hooks/useAuth.ts), the context and the  *)
(* route guard (components/AuthProvider.tsx), the Logout button            *)
(* (components/Logout.tsx) and the auth callback page                      *)
(* (app/auth/callback/page.tsx).  The remote access-management service is  *)
(* the environment: every answer it can give is drawn from Answers.        *)
(***************************************************************************)
EXTENDS Naturals, Sequences, FiniteSets, Bags

(***************************************************************************)
(* Bounds of the model.                                                    *)
(***************************************************************************)
\* requests (verify-session or logout) that may be awaiting an answer at once
MaxInFlight == 2
\* timeouts of the callback page that may be set or about to be set at once
MaxTimeouts == 2

(***************************************************************************)
(* Values.  Absent / null / undefined is the string Null, so that every    *)
(* optional string field has one type.                                     *)
(***************************************************************************)
Null == "null"

\* AuthUser snapshots, named by their id; RoleOf is the role field
Users == {"1", "2"}
\* users with the other roles that the role queries tell apart
RoleUsers == Users \cup {"3", "4"}
RoleOf(u) ==
    CASE u = "1" -> "admin"
      [] u = "3" -> "super_admin"
      [] u = "4" -> "Admin"
      [] OTHER -> "user"
\* the role names a caller may ask about
Roles == {"admin", "super_admin", "user", "Admin"}

Tokens == {"t1", "t2"}

\* the two classes that authClient.ts holds
Versions == {"cookie", "token"}

\* message texts the server may send: none, the empty string, a text
ServerMessages == {Null, "", "Session expired"}
ServerLoginUrl == "https://x/login"

MsgNetwork == "Network error during authentication check"
MsgNotAuthenticated == "Not authenticated"
MsgAuthRequired == "Authentication required"
MsgCheckFailed == "Authentication check failed"

\* checkInterval === null; the handles setInterval returns are positive
NoTimer == 0

\* the document's URL and path while the page lives, and their
\* encodeURIComponent images
Origin == "https://app.example"
PageHref == "https://app.example/profile?tab=1"
PagePath == "/profile"
\* the path of the auth callback page
CallbackPath == "/auth/callback"

\* the query of a URL: its parameters in order, as URLSearchParams reads them
Param(k, v) == [key |-> k, value |-> v]
\* the query of PageHref
PlainQuery == <<Param("tab", "1")>>
\* the queries a page may be loaded with: none, the OAuth callback's token
\* and sessionId alone or among other parameters, a sessionId without a
\* token, an empty token, a token given twice
Queries ==
    {<< >>,
     PlainQuery,
     <<Param("token", "abc123"), Param("sessionId", "xyz")>>,
     <<Param("tab", "1"), Param("token", "abc123"), Param("sessionId", "xyz")>>,
     <<Param("token", "abc123"), Param("tab", "1")>>,
     <<Param("sessionId", "xyz"), Param("tab", "1")>>,
     <<Param("token", ""), Param("sessionId", "xyz")>>,
     <<Param("token", "abc123"), Param("tab", "1"), Param("token", "t1")>>}

\* URLSearchParams.get: the value of the first parameter named k, or null
QueryGet(q, k) ==
    IF \E i \in 1..Len(q) : q[i].key = k
    THEN q[CHOOSE i \in 1..Len(q) :
               q[i].key = k /\ \A j \in 1..(i - 1) : q[j].key # k].value
    ELSE Null

\* URLSearchParams.delete: every parameter named k is removed
QueryDelete(q, k) == SelectSeq(q, LAMBDA p : p.key # k)

\* the queries the callback page may be loaded with: no callbackUrl, one,
\* an empty one
CallbackQueries ==
    {<< >>,
     <<Param("callbackUrl", "/orders")>>,
     <<Param("callbackUrl", "")>>}

\* the percent-encoding of the strings that URLs are made of here: a
\* reserved character becomes %XX, a string of unreserved ones is its own image
PercentEncoded(s) ==
    IF s = Origin THEN "https%3A%2F%2Fapp.example"
    ELSE IF s = PagePath THEN "%2Fprofile"
    ELSE IF s = CallbackPath THEN "%2Fauth%2Fcallback"
    ELSE IF s = "/orders" THEN "%2Forders"
    ELSE IF s = "%2Forders" THEN "%252Forders"
    ELSE IF s = "?" THEN "%3F"
    ELSE IF s = "=" THEN "%3D"
    ELSE IF s = "&" THEN "%26"
    ELSE s

\* the parameters of a query as they stand in the URL (values
\* percent-encoded), and the percent-encoding of that text
RECURSIVE ParamsText(_), EncodedParamsText(_)
ParamsText(q) ==
    IF q = << >> THEN ""
    ELSE q[1].key \o "=" \o PercentEncoded(q[1].value)
         \o (IF Len(q) > 1 THEN "&" \o ParamsText(Tail(q)) ELSE "")
EncodedParamsText(q) ==
    IF q = << >> THEN ""
    ELSE q[1].key \o PercentEncoded("=")
         \o PercentEncoded(PercentEncoded(q[1].value))
         \o (IF Len(q) > 1 THEN PercentEncoded("&") \o EncodedParamsText(Tail(q))
             ELSE "")

\* window.location.href of the page at a path with a query
HrefOf(path, q) ==
    Origin \o path \o (IF q = << >> THEN "" ELSE "?" \o ParamsText(q))

\* the pages that are loaded: a page of the application, the callback page
Pages == ({PagePath} \X Queries) \cup ({CallbackPath} \X CallbackQueries)

\* the URLs of the pages, and the percent-encoding of each, piece by piece
Hrefs == [pg \in Pages |-> HrefOf(pg[1], pg[2])]
EncodedHrefs ==
    [pg \in Pages |->
        PercentEncoded(Origin) \o PercentEncoded(pg[1])
        \o (IF pg[2] = << >> THEN ""
            ELSE PercentEncoded("?") \o EncodedParamsText(pg[2]))]

\* the URL of the callback page with each of its queries, and its
\* percent-encoding, written out (Hrefs and EncodedHrefs at these pages)
CallbackHref(q) ==
    CASE q = << >> -> "https://app.example/auth/callback"
      [] q = <<Param("callbackUrl", "/orders")>> ->
            "https://app.example/auth/callback?callbackUrl=%2Forders"
      [] q = <<Param("callbackUrl", "")>> ->
            "https://app.example/auth/callback?callbackUrl="
EncodedCallbackHref(q) ==
    CASE q = << >> -> "https%3A%2F%2Fapp.example%2Fauth%2Fcallback"
      [] q = <<Param("callbackUrl", "/orders")>> ->
            "https%3A%2F%2Fapp.example%2Fauth%2Fcallback%3FcallbackUrl%3D%252Forders"
      [] q = <<Param("callbackUrl", "")>> ->
            "https%3A%2F%2Fapp.example%2Fauth%2Fcallback%3FcallbackUrl%3D"

\* encodeURIComponent: of a string PercentEncoded knows as it has it, of a
\* page's URL as EncodedHrefs has it
encodeURIComponent(s) ==
    IF PercentEncoded(s) # s THEN PercentEncoded(s)
    ELSE IF s = PageHref THEN "https%3A%2F%2Fapp.example%2Fprofile%3Ftab%3D1"
    ELSE IF \E q \in CallbackQueries : CallbackHref(q) = s
    THEN EncodedCallbackHref(CHOOSE q \in CallbackQueries : CallbackHref(q) = s)
    ELSE IF \E pg \in Pages : Hrefs[pg] = s
    THEN EncodedHrefs[CHOOSE pg \in Pages : Hrefs[pg] = s]
    ELSE s

\* a navigation target: {authServiceUrl}<path>[?callbackUrl=<callbackUrl>]
Url(path, cb) == [path |-> path, callbackUrl |-> cb]
NoNav == Url(Null, Null)

(***************************************************************************)
(* What the service can answer to GET /api/auth/verify-session.            *)
(*   kind "reject": fetch rejects (network failure);                       *)
(*   kind "badjson": response.json() rejects (body is not JSON);           *)
(*   kind "nullbody": the body is the JSON value null;                     *)
(*   kind "object": the body is an object with the AuthResponse fields.    *)
(***************************************************************************)
Body(a, u, t, m, rr, l) ==
    [authenticated |-> a, user |-> u, token |-> t, message |-> m,
     requiresRedirect |-> rr, loginUrl |-> l]
NoBody == Body(FALSE, Null, Null, Null, FALSE, Null)

Resp(k, s, b) == [kind |-> k, status |-> s, body |-> b]
NoResp == Resp(Null, 0, NoBody)

\* bodies that claim a session: with or without a user, with or without a token
PositiveBodies ==
    {Body(TRUE, u, t, Null, FALSE, Null) : u \in Users, t \in Tokens \cup {Null}}
    \cup {Body(TRUE, Null, "t1", Null, FALSE, Null)}
\* bodies that deny one, with each kind of message
DenyingBodies ==
    {Body(FALSE, Null, Null, m, FALSE, Null) : m \in ServerMessages}
\* bodies that ask for the cross-domain redirect
RedirectBodies ==
    {Body(FALSE, Null, Null, m, TRUE, l) :
        m \in {Null, "Session expired"}, l \in {Null, ServerLoginUrl}}

Responses ==
    {Resp("reject", 0, NoBody), Resp("badjson", 200, NoBody), Resp("nullbody", 401, NoBody)}
    \cup {Resp("object", 200, b) : b \in PositiveBodies}
    \cup {Resp("object", 401, Body(TRUE, "1", "t1", Null, FALSE, Null)),
          Resp("object", 200, Body(FALSE, "1", "t1", Null, FALSE, Null)),
          Resp("object", 200, Body(FALSE, Null, Null, "Session expired", FALSE, Null)),
          Resp("object", 500, Body(FALSE, Null, Null, "", FALSE, Null)),
          Resp("object", 500, Body(FALSE, Null, Null, Null, TRUE, ServerLoginUrl))}
    \cup {Resp("object", 401, b) : b \in DenyingBodies \cup RedirectBodies}

\* on the auth callback page three callers await answers at once (the page,
\* the hook, the timer): one answer of each kind that checkAuthentication,
\* the hook and the page tell apart
CallbackResponses ==
    {Resp("reject", 0, NoBody), Resp("badjson", 200, NoBody),
     Resp("nullbody", 401, NoBody),
     Resp("object", 200, Body(TRUE, "1", "t1", Null, FALSE, Null)),
     Resp("object", 200, Body(TRUE, Null, "t1", Null, FALSE, Null)),
     Resp("object", 401, Body(FALSE, Null, Null, "Session expired", FALSE, Null)),
     Resp("object", 401, Body(FALSE, Null, Null, Null, TRUE, ServerLoginUrl)),
     Resp("object", 500, Body(FALSE, Null, Null, "", FALSE, Null))}

\* what POST /api/auth/logout can do: 2xx, non-2xx, fetch rejects
LogoutOutcomes == {"ok", "notok", "reject"}

VARIABLES
    version,        \* which AuthClient class is the singleton
    hasWindow,      \* typeof window !== 'undefined'
    user,           \* AuthClient.user
    token,          \* AuthClient.token
    storage,        \* localStorage['auth_token']
    checkInterval,  \* AuthClient.checkInterval
    timers,         \* the interval timers that are armed (setInterval, not cleared)
    location,       \* the query of the page's URL (window.location.search)
    pathname,       \* the path of the page's URL (window.location.pathname)
    inflight,       \* the requests awaiting their answer, in the order issued
    last,           \* the step just taken and what it returned
    mounted,        \* useAuth: "initial", "mounted" or "unmounted"
    hUser,          \* useAuth: user
    isLoading,      \* useAuth: isLoading
    error,          \* useAuth: error
    effectPending,  \* useAuth: user changed and the [user] effect has not run yet
    cleanupArmed,   \* useAuth: the [user] effect last ran with a user (it has a cleanup)
    isPending,      \* Logout button: isPending
    status,         \* auth callback page: status
    scheduled       \* auth callback page: the timeouts set and not yet fired

clientVars == <<version, hasWindow, user, token, storage, checkInterval, timers,
                location, pathname>>
hookVars == <<mounted, hUser, isLoading, error, effectPending, cleanupArmed>>
vars == <<version, hasWindow, user, token, storage, checkInterval, timers,
          location, pathname, inflight, last, mounted, hUser, isLoading, error, effectPending,
          cleanupArmed, isPending, status, scheduled>>

pageVars == <<status, scheduled>>

\* the answers verify-session may give to a request of the page loaded
Answers == IF pathname = "/auth/callback" THEN CallbackResponses ELSE Responses

\* window.location.href
Href ==
    IF pathname = PagePath /\ location = PlainQuery THEN PageHref
    ELSE IF pathname = CallbackPath /\ location \in CallbackQueries
    THEN CallbackHref(location)
    ELSE HrefOf(pathname, location)

(***************************************************************************)
(* AuthResponse values returned by checkAuthentication.                    *)
(***************************************************************************)
AuthResponse(a, u, t, m, rr, l) ==
    [authenticated |-> a, user |-> u, token |-> t, message |-> m,
     requiresRedirect |-> rr, loginUrl |-> l]
NoResult == AuthResponse(FALSE, Null, Null, Null, FALSE, Null)

\* x || dflt for an optional string: undefined and "" are falsy
OrElse(x, dflt) == IF x = Null \/ x = "" THEN dflt ELSE x

\* response.ok
Ok(code) == code >= 200 /\ code <= 299


(***************************************************************************)
(* AuthClient: token storage.  Each operator gives the pair of the token   *)
(* field and the local-storage entry after the call.                       *)
(***************************************************************************)
TokenState(t, st) == [token |-> t, storage |-> st]

\* mutant: the token is kept in memory only
M_setToken_MemoryOnly(t, st, win) == TokenState(t, st)

setToken(t, st, win) == TokenState(t, IF win THEN t ELSE st)

clearToken(st, win) == TokenState(Null, IF win THEN Null ELSE st)

\* the constructor: the token version loads the token from local storage
Constructed(ver, st, win) == IF ver = "token" /\ win THEN st ELSE Null

\* mutant: the header is never attached
M_Authorization_Never(ver, t) == Null

\* the Authorization header of a request: Bearer <token> when a token is cached
Authorization(ver, t) == IF ver = "token" /\ t # Null THEN t ELSE Null

(***************************************************************************)
(* AuthClient.initializeFromUrl (token version): the token field, the      *)
(* local-storage entry and the visible query after it, and what it returns.*)
(***************************************************************************)
UrlEffect(ts, q, ret) ==
    [token |-> ts.token, storage |-> ts.storage, location |-> q, returned |-> ret]

\* if (token): null and the empty string are falsy
Truthy(x) == x # Null /\ x # ""

\* mutant: only the token parameter is removed from the URL
M_initializeFromUrl_KeepsSessionId(q, t, st, win) ==
    IF ~win THEN UrlEffect(TokenState(t, st), q, FALSE)
    ELSE LET tok == QueryGet(q, "token")
         IN  IF Truthy(tok)
             THEN UrlEffect(setToken(tok, st, win), QueryDelete(q, "token"), TRUE)
             ELSE UrlEffect(TokenState(t, st), q, FALSE)

initializeFromUrl(q, t, st, win) ==
    IF ~win THEN UrlEffect(TokenState(t, st), q, FALSE)
    ELSE LET tok == QueryGet(q, "token")
         IN  IF Truthy(tok)
             THEN UrlEffect(setToken(tok, st, win),
                            QueryDelete(QueryDelete(q, "token"), "sessionId"),
                            TRUE)
             ELSE UrlEffect(TokenState(t, st), q, FALSE)

(***************************************************************************)
(* AuthClient.checkAuthentication, from the answer on: the value written   *)
(* to this.user, the token and storage after it, the AuthResponse it       *)
(* resolves with, and whether it rejects instead.                          *)
(***************************************************************************)
CheckEffect(u, ts, result, threw) ==
    [user |-> u, token |-> ts.token, storage |-> ts.storage,
     result |-> result, threw |-> threw]

\* fetch rejects, response.json() rejects, or data is null and reading a
\* property of it (authenticated, requiresRedirect or message, whichever the
\* status leads to first) is a TypeError: control reaches the catch block
\* before clearToken or a return
Throws(resp) == resp.kind \in {"reject", "badjson", "nullbody"}

\* mutant: a token that is cached is not replaced (first write wins)
M_CheckSuccess_KeepsCachedToken(ver, resp, t, st, win) ==
    CheckEffect(resp.body.user,
                IF ver = "token" /\ resp.body.token # Null /\ t = Null
                    THEN setToken(resp.body.token, st, win)
                    ELSE TokenState(t, st),
                AuthResponse(TRUE, resp.body.user,
                             IF ver = "token" THEN resp.body.token ELSE Null,
                             Null, FALSE, Null),
                FALSE)

\* mutant: in the token version an answer that brings no token is not applied
\* once the token has been cleared
M_CheckSuccess_NotAfterTokenCleared(ver, resp, t, st, win) ==
    CheckEffect(IF ver = "token" /\ t = Null /\ resp.body.token = Null
                    THEN Null ELSE resp.body.user,
                IF ver = "token" /\ resp.body.token # Null
                    THEN setToken(resp.body.token, st, win)
                    ELSE TokenState(t, st),
                AuthResponse(TRUE, resp.body.user,
                             IF ver = "token" THEN resp.body.token ELSE Null,
                             Null, FALSE, Null),
                FALSE)

\* mutant: the success branch returns the user but caches none
M_CheckSuccess_CachesNoUser(ver, resp, t, st, win) ==
    CheckEffect(Null,
                IF ver = "token" /\ resp.body.token # Null
                    THEN setToken(resp.body.token, st, win)
                    ELSE TokenState(t, st),
                AuthResponse(TRUE, resp.body.user,
                             IF ver = "token" THEN resp.body.token ELSE Null,
                             Null, FALSE, Null),
                FALSE)

CheckSuccess(ver, resp, t, st, win) ==
    CheckEffect(resp.body.user,
                IF ver = "token" /\ resp.body.token # Null
                    THEN setToken(resp.body.token, st, win)
                    ELSE TokenState(t, st),
                AuthResponse(TRUE, resp.body.user,
                             IF ver = "token" THEN resp.body.token ELSE Null,
                             Null, FALSE, Null),
                FALSE)

\* mutant: the cross-domain branch keeps the token
M_CheckCrossDomain_KeepsToken(resp, t, st, win) ==
    CheckEffect(Null, TokenState(t, st),
                AuthResponse(FALSE, Null, Null,
                             OrElse(resp.body.message, MsgAuthRequired),
                             TRUE, resp.body.loginUrl),
                FALSE)

CheckCrossDomain(resp, t, st, win) ==
    CheckEffect(Null, clearToken(st, win),
                AuthResponse(FALSE, Null, Null,
                             OrElse(resp.body.message, MsgAuthRequired),
                             TRUE, resp.body.loginUrl),
                FALSE)

\* mutant: the failure branch never clears the token
M_CheckFailure_NeverClearsToken(ver, resp, t, st, win) ==
    CheckEffect(Null, TokenState(t, st),
                AuthResponse(FALSE, Null, Null,
                             OrElse(resp.body.message, MsgNotAuthenticated),
                             FALSE, Null),
                FALSE)

\* mutant: the failure branch caches whatever user the body carries
M_CheckFailure_KeepsBodyUser(ver, resp, t, st, win) ==
    CheckEffect(resp.body.user,
                IF ver = "token" /\ resp.status = 401
                    THEN clearToken(st, win)
                    ELSE TokenState(t, st),
                AuthResponse(FALSE, Null, Null,
                             OrElse(resp.body.message, MsgNotAuthenticated),
                             FALSE, Null),
                FALSE)

CheckFailure(ver, resp, t, st, win) ==
    CheckEffect(Null,
                IF ver = "token" /\ resp.status = 401
                    THEN clearToken(st, win)
                    ELSE TokenState(t, st),
                AuthResponse(FALSE, Null, Null,
                             OrElse(resp.body.message, MsgNotAuthenticated),
                             FALSE, Null),
                FALSE)

\* mutant: the catch block rethrows
M_CheckCatch_Rethrows(t, st) ==
    CheckEffect(Null, TokenState(t, st), NoResult, TRUE)

CheckCatch(t, st) ==
    CheckEffect(Null, TokenState(t, st),
                AuthResponse(FALSE, Null, Null, MsgNetwork, FALSE, Null),
                FALSE)

checkAuthentication(ver, resp, t, st, win) ==
    IF Throws(resp) THEN CheckCatch(t, st)
    ELSE IF Ok(resp.status) /\ resp.body.authenticated /\ resp.body.user # Null
        THEN CheckSuccess(ver, resp, t, st, win)
    ELSE IF ver = "token" /\ resp.status = 401 /\ resp.body.requiresRedirect
        THEN CheckCrossDomain(resp, t, st, win)
    ELSE CheckFailure(ver, resp, t, st, win)

(***************************************************************************)
(* AuthClient.redirectToLogin: the navigation it performs (NoNav when it   *)
(* performs none) and whether it throws.                                   *)
(***************************************************************************)
NavEffect(nav, threw) == [nav |-> nav, threw |-> threw]

redirectToLogin(ver, callbackUrl, win) ==
    IF ver = "token"
    THEN LET currentUrl == IF callbackUrl # Null THEN callbackUrl
                           ELSE IF win THEN Href ELSE Null
             url == IF currentUrl # Null
                    THEN Url("/auth/user/login", encodeURIComponent(currentUrl))
                    ELSE Url("/auth/user/login", Null)
         IN  NavEffect(IF win THEN url ELSE NoNav, FALSE)
    ELSE LET url == IF callbackUrl # Null
                    THEN Url("/auth/users/login", encodeURIComponent(callbackUrl))
                    ELSE Url("/auth/users/login", Null)
         IN  \* window.location.href = url, unguarded
             IF win THEN NavEffect(url, FALSE) ELSE NavEffect(NoNav, TRUE)

\* mutant: a network error is not taken for a lost session
M_TickRedirect_NotOnNetworkError(ver, result, win) ==
    IF result.authenticated \/ result.message = MsgNetwork THEN NavEffect(NoNav, FALSE)
    ELSE IF ver = "token" THEN redirectToLogin(ver, Null, win)
    ELSE IF win THEN redirectToLogin(ver, pathname, win) ELSE NavEffect(NoNav, TRUE)

\* the timer callback after its check: a negative result redirects
TickRedirect(ver, result, win) ==
    IF result.authenticated THEN NavEffect(NoNav, FALSE)
    ELSE IF ver = "token" THEN redirectToLogin(ver, Null, win)
    ELSE \* redirectToLogin(window.location.pathname)
         IF win THEN redirectToLogin(ver, pathname, win) ELSE NavEffect(NoNav, TRUE)

(***************************************************************************)
(* Periodic checking.  A timer state is the handle in checkInterval and    *)
(* the set of armed timers.                                                *)
(***************************************************************************)
TimerState(ci, ts) == [checkInterval |-> ci, timers |-> ts]

\* the handle setInterval returns: the least one that no armed timer has and
\* that is not the handle just cleared (handles are not handed out twice in a row)
NewTimer(ts, ci) ==
    CHOOSE n \in 1..(Cardinality(ts) + 2) :
        /\ n \notin ts \cup {ci}
        /\ \A m \in 1..(Cardinality(ts) + 2) : m \notin ts \cup {ci} => n <= m

\* mutant: the previous timer is not cleared
M_startPeriodicCheck_NoClear(ci, ts) ==
    LET id == NewTimer(ts, ci)
    IN  TimerState(id, ts \cup {id})

startPeriodicCheck(ci, ts) ==
    LET cleared == IF ci # NoTimer THEN ts \ {ci} ELSE ts
        id == NewTimer(cleared, ci)
    IN  TimerState(id, cleared \cup {id})

stopPeriodicCheck(ci, ts) ==
    IF ci # NoTimer THEN TimerState(NoTimer, ts \ {ci}) ELSE TimerState(ci, ts)

(***************************************************************************)
(* AuthClient.logout, from the answer on.                                  *)
(***************************************************************************)
LogoutEffect(u, ts, tm, nav, threw) ==
    [user |-> u, token |-> ts.token, storage |-> ts.storage,
     checkInterval |-> tm.checkInterval, timers |-> tm.timers,
     nav |-> nav, threw |-> threw]

\* the try block throws when fetch rejects or the status is not 2xx
LogoutTryThrows(outcome) == outcome \in {"notok", "reject"}

\* the catch block logs and swallows whatever the try block threw
LogoutCatch(thrown) == FALSE

\* mutant: the cleanup sits at the end of the try block instead of in finally
M_logout_CleanupInTry(ver, outcome, t, st, ci, ts, win) ==
    IF LogoutTryThrows(outcome)
    THEN LogoutEffect(Null, TokenState(t, st), TimerState(ci, ts), NoNav, FALSE)
    ELSE LogoutEffect(Null, clearToken(st, win), stopPeriodicCheck(ci, ts),
                      IF win THEN Url("/auth/user/login", Null) ELSE NoNav, FALSE)

logout(ver, outcome, t, st, ci, ts, win) ==
    LET pending == IF LogoutTryThrows(outcome) THEN LogoutCatch(TRUE) ELSE FALSE
        tm == stopPeriodicCheck(ci, ts)
    IN  IF ver = "token"
        THEN LogoutEffect(Null, clearToken(st, win), tm,
                          IF win THEN Url("/auth/user/login", Null) ELSE NoNav,
                          pending)
        ELSE \* finally: window.location.href = ..., unguarded
             LogoutEffect(Null, TokenState(t, st), tm,
                          IF win THEN Url("/auth/users/login", Null) ELSE NoNav,
                          pending \/ ~win)

(***************************************************************************)
(* Role queries of AuthClient, over the cached user.  A list of roles is   *)
(* the set of its elements.                                                *)
(***************************************************************************)
hasRole(u, role) == u # Null /\ RoleOf(u) = role

hasAnyRole(u, roles) == IF u # Null THEN RoleOf(u) \in roles ELSE FALSE

\* mutant: super_admin is not counted
M_isAdmin_AdminOnly(u) == hasAnyRole(u, {"admin"})

isAdmin(u) == hasAnyRole(u, {"admin", "super_admin"})

(***************************************************************************)
(* The step just taken.                                                    *)
(***************************************************************************)
\* the client fields as a call found them when its answer arrived
Before(u, t, st, ts) == [user |-> u, token |-> t, storage |-> st, armed |-> ts # {}]
NoBefore == Before(Null, Null, Null, {})

\* the state part of the value useAuth returns
UseAuthReturn(u, ld, err) ==
    [user |-> u, isLoading |-> ld, isAuthenticated |-> u # Null, error |-> err]
NoContext == UseAuthReturn(Null, FALSE, Null)

\* the step before a call settled: what it was and, if a call settled in it,
\* how many requests issued earlier than that call's were still awaited
Prev(op, n) == [op |-> op, overtaken |-> n]

Last(op, caller, auth, outcome, resp, result, threw, nav, bef) ==
    [op |-> op, caller |-> caller, authorization |-> auth, outcome |-> outcome,
     resp |-> resp, result |-> result, threw |-> threw, nav |-> nav, before |-> bef,
     returned |-> FALSE, view |-> Null, roles |-> {}, arg |-> Null,
     provided |-> TRUE, context |-> NoContext,
     overtaken |-> 0, after |-> Prev(Null, 0), ranEffect |-> FALSE]

Step(op, caller) ==
    Last(op, caller, Null, Null, NoResp, NoResult, FALSE, NoNav, NoBefore)

\* checkAuthentication or logout settled
Settled(op, caller, outcome, resp, result, threw, nav) ==
    Last(op, caller, Null, outcome, resp, result, threw, nav,
         Before(user, token, storage, timers))

RemoveAt(s, i) == SubSeq(s, 1, i - 1) \o SubSeq(s, i + 1, Len(s))

Req(kind, caller) == [kind |-> kind, caller |-> caller]

(***************************************************************************)
(* Initial states: the singleton is constructed at module load; the hook   *)
(* has not mounted.  Local storage may hold a token a previous page load   *)
(* of the token version stored.                                            *)
(***************************************************************************)
InitPage(ver, win, st, path, q) ==
    /\ version = ver
    /\ location = q
    /\ pathname = path
    /\ hasWindow = win
    /\ storage = st
    /\ token = Constructed(ver, st, win)
    /\ user = Null
    /\ checkInterval = NoTimer
    /\ timers = {}
    /\ inflight = << >>
    /\ last = Step("init", Null)
    /\ mounted = "initial"
    /\ hUser = Null
    /\ isLoading = TRUE
    /\ error = Null
    /\ effectPending = FALSE
    /\ cleanupArmed = FALSE
    /\ isPending = FALSE
    /\ status = "loading"
    /\ scheduled = EmptyBag

\* a page of the application is loaded with a query
InitAt(ver, win, st, q) == InitPage(ver, win, st, PagePath, q)

\* the page is at PageHref
InitWith(ver, win, st) == InitAt(ver, win, st, PlainQuery)

\* the token a page load may find in local storage
StoredAtLoad(ver, win) == IF ver = "token" /\ win THEN Tokens \cup {Null} ELSE {Null}

(***************************************************************************)
(* Client operations called directly (callers of the public API).          *)
(***************************************************************************)
\* a verify-session request is sent
SendVerify(caller) ==
    /\ Len(inflight) < MaxInFlight
    /\ inflight' = Append(inflight, Req("verify", caller))
    /\ last' = Last("sendVerify", caller, Authorization(version, token), Null,
                    NoResp, NoResult, FALSE, NoNav, NoBefore)

\* a logout request is sent
SendLogout(caller) ==
    /\ Len(inflight) < MaxInFlight
    /\ inflight' = Append(inflight, Req("logout", caller))
    /\ last' = Last("sendLogout", caller, Authorization(version, token), Null,
                    NoResp, NoResult, FALSE, NoNav, NoBefore)

\* the session fields after checkAuthentication has processed its answer, or
\* logout has run its finally block
SessionAfter(eff) ==
    /\ user' = eff.user
    /\ token' = eff.token
    /\ storage' = eff.storage
    /\ UNCHANGED <<location, pathname, version, hasWindow>>

\* the client fields after checkAuthentication has processed its answer
ClientAfterCheck(eff) ==
    /\ SessionAfter(eff)
    /\ UNCHANGED <<checkInterval, timers>>

\* the client fields after logout has run its finally block
ClientAfterLogout(eff) ==
    /\ SessionAfter(eff)
    /\ checkInterval' = eff.checkInterval
    /\ timers' = eff.timers

ApiCheck ==
    /\ SendVerify("api")
    /\ UNCHANGED <<clientVars, hookVars, isPending, pageVars>>

ApiCheckResolves ==
    \E i \in 1..Len(inflight), resp \in Answers :
        /\ inflight[i] = Req("verify", "api")
        /\ LET eff == checkAuthentication(version, resp, token, storage, hasWindow)
           IN  /\ ClientAfterCheck(eff)
               /\ last' = [Settled("verify", "api", Null, resp, eff.result,
                                eff.threw, NoNav)
                            EXCEPT !.overtaken = i - 1,
                                   !.after = Prev(last.op, last.overtaken)]
        /\ inflight' = RemoveAt(inflight, i)
        /\ UNCHANGED <<hookVars, isPending, pageVars>>

ApiLogout ==
    /\ SendLogout("api")
    /\ UNCHANGED <<clientVars, hookVars, isPending, pageVars>>

ApiLogoutResolves ==
    \E i \in 1..Len(inflight), outcome \in LogoutOutcomes :
        /\ inflight[i] = Req("logout", "api")
        /\ LET eff == logout(version, outcome, token, storage, checkInterval,
                             timers, hasWindow)
           IN  /\ ClientAfterLogout(eff)
               /\ last' = [Settled("logout", "api", outcome, NoResp, NoResult,
                                eff.threw, eff.nav)
                            EXCEPT !.overtaken = i - 1]
        /\ inflight' = RemoveAt(inflight, i)
        /\ UNCHANGED <<hookVars, isPending, pageVars>>

ApiStartPeriodicCheck ==
    /\ LET tm == startPeriodicCheck(checkInterval, timers)
       IN  /\ checkInterval' = tm.checkInterval
           /\ timers' = tm.timers
    /\ last' = Step("start", "api")
    /\ UNCHANGED <<location, pathname, version, hasWindow, user, token, storage, inflight, hookVars,
                   isPending, pageVars>>

ApiStopPeriodicCheck ==
    /\ LET tm == stopPeriodicCheck(checkInterval, timers)
       IN  /\ checkInterval' = tm.checkInterval
           /\ timers' = tm.timers
    /\ last' = Step("stop", "api")
    /\ UNCHANGED <<location, pathname, version, hasWindow, user, token, storage, inflight, hookVars,
                   isPending, pageVars>>

\* what a call that only returns a value leaves alone
calledVars == <<clientVars, inflight, hookVars, isPending, pageVars>>

\* redirectToLogin(callbackUrl?) is called
ApiRedirectToLogin ==
    \E callbackUrl \in {Null, PagePath, PageHref} :
        LET red == redirectToLogin(version, callbackUrl, hasWindow)
        IN  /\ last' = [Step("redirectToLogin", "api") EXCEPT
                            !.arg = callbackUrl, !.nav = red.nav,
                            !.threw = red.threw]
            /\ UNCHANGED calledVars

\* initializeFromUrl() is called (a method of the token version only)
ApiInitializeFromUrl ==
    /\ version = "token"
    /\ LET eff == initializeFromUrl(location, token, storage, hasWindow)
       IN  /\ token' = eff.token
           /\ storage' = eff.storage
           /\ location' = eff.location
           /\ last' = [Settled("initializeFromUrl", "api", Null, NoResp, NoResult,
                                FALSE, NoNav) EXCEPT !.returned = eff.returned]
    /\ UNCHANGED <<pathname, version, hasWindow, user, checkInterval, timers,
                   inflight, hookVars, isPending, pageVars>>

\* setToken(token) is called (a method of the token version only)
ApiSetToken ==
    \E t \in Tokens :
        /\ version = "token"
        /\ LET eff == setToken(t, storage, hasWindow)
           IN  /\ token' = eff.token
               /\ storage' = eff.storage
        /\ last' = [Settled("setToken", "api", Null, NoResp, NoResult,
                             FALSE, NoNav) EXCEPT !.arg = t]
        /\ UNCHANGED <<location, pathname, version, hasWindow, user, checkInterval,
                       timers, inflight, hookVars, isPending, pageVars>>

\* clearToken() is called (a method of the token version only)
ApiClearToken ==
    /\ version = "token"
    /\ LET eff == clearToken(storage, hasWindow)
       IN  /\ token' = eff.token
           /\ storage' = eff.storage
    /\ last' = Settled("clearToken", "api", Null, NoResp, NoResult,
                       FALSE, NoNav)
    /\ UNCHANGED <<location, pathname, version, hasWindow, user, checkInterval,
                   timers, inflight, hookVars, isPending, pageVars>>

(***************************************************************************)
(* The interval timer: an armed timer fires and its callback awaits        *)
(* checkAuthentication; on the answer it redirects if the check failed.    *)
(***************************************************************************)
Tick ==
    \E id \in timers :
        /\ SendVerify("timer")
        /\ UNCHANGED <<clientVars, hookVars, isPending, pageVars>>

TickResolves ==
    \E i \in 1..Len(inflight), resp \in Answers :
        /\ inflight[i] = Req("verify", "timer")
        /\ LET eff == checkAuthentication(version, resp, token, storage, hasWindow)
               red == TickRedirect(version, eff.result, hasWindow)
           IN  /\ ClientAfterCheck(eff)
               /\ last' = Settled("verify", "timer", Null, resp, eff.result,
                               eff.threw \/ red.threw, red.nav)
        /\ inflight' = RemoveAt(inflight, i)
        /\ UNCHANGED <<hookVars, isPending, pageVars>>

(***************************************************************************)
(* SpecClient: the AuthClient singleton driven through its public methods, *)
(* in and outside a browser.                                               *)
(***************************************************************************)
InitClient ==
    \E ver \in Versions, win \in BOOLEAN :
        \E st \in StoredAtLoad(ver, win) : InitWith(ver, win, st)

NextClient ==
    \/ ApiRedirectToLogin
    \/ ApiCheck
    \/ ApiCheckResolves
    \/ ApiLogout
    \/ ApiLogoutResolves
    \/ ApiStartPeriodicCheck
    \/ ApiStopPeriodicCheck
    \/ ApiSetToken
    \/ ApiClearToken
    \/ ApiInitializeFromUrl
    \/ Tick
    \/ TickResolves

SpecClient == InitClient /\ [][NextClient]_vars

(***************************************************************************)
(* useAuth.  The hook lives in AuthProvider, in a browser.  State updates  *)
(* of one continuation are batched into one render.  The [user] effect of  *)
(* a render in which user changed runs after that render: as a step of its *)
(* own (RunEffects), or, when the application renders again before that,   *)
(* at the start of that render, with the user of the render that left it   *)
(* pending (Render).  Setters of an unmounted hook do nothing, and setters  *)
(* that change nothing cause no render.                                    *)
(***************************************************************************)
HookState(u, ld, err, nav, threw) ==
    [user |-> u, isLoading |-> ld, error |-> err, nav |-> nav, threw |-> threw]

\* checkAuth from the answer on, given what checkAuthentication did (eff):
\* the hook's user, isLoading and error after it, and the navigation it made
\* mutant: setIsLoading(false) sits in the failure paths only
M_checkAuth_NoFinally(ver, eff, err, win) ==
    IF eff.threw
    THEN HookState(Null, FALSE, MsgCheckFailed, NoNav, FALSE)
    ELSE IF eff.result.authenticated /\ eff.result.user # Null
    THEN HookState(eff.result.user, TRUE, err, NoNav, FALSE)
    ELSE IF eff.result.requiresRedirect /\ win
    THEN LET red == redirectToLogin(ver, Href, win)
         IN  HookState(Null, FALSE, err, red.nav, red.threw)
    ELSE HookState(Null, FALSE, OrElse(eff.result.message, MsgNotAuthenticated),
                   NoNav, FALSE)

\* mutant: the failure path drops the message the client produced
M_checkAuth_DefaultMessage(ver, eff, err, win) ==
    IF eff.threw
    THEN HookState(Null, FALSE, MsgCheckFailed, NoNav, FALSE)
    ELSE IF eff.result.authenticated /\ eff.result.user # Null
    THEN HookState(eff.result.user, FALSE, err, NoNav, FALSE)
    ELSE IF eff.result.requiresRedirect /\ win
    THEN LET red == redirectToLogin(ver, Href, win)
         IN  HookState(Null, FALSE, err, red.nav, red.threw)
    ELSE HookState(Null, FALSE, MsgNotAuthenticated, NoNav, FALSE)

\* mutant: the early return of the redirect path skips setIsLoading(false)
M_checkAuth_RedirectSkipsFinally(ver, eff, err, win) ==
    IF eff.threw
    THEN HookState(Null, FALSE, MsgCheckFailed, NoNav, FALSE)
    ELSE IF eff.result.authenticated /\ eff.result.user # Null
    THEN HookState(eff.result.user, FALSE, err, NoNav, FALSE)
    ELSE IF eff.result.requiresRedirect /\ win
    THEN LET red == redirectToLogin(ver, Href, win)
         IN  HookState(Null, TRUE, err, red.nav, red.threw)
    ELSE HookState(Null, FALSE, OrElse(eff.result.message, MsgNotAuthenticated),
                   NoNav, FALSE)

\* mutant: the redirect path records the message before it returns
M_checkAuth_RedirectRecordsError(ver, eff, err, win) ==
    IF eff.threw
    THEN HookState(Null, FALSE, MsgCheckFailed, NoNav, FALSE)
    ELSE IF eff.result.authenticated /\ eff.result.user # Null
    THEN HookState(eff.result.user, FALSE, err, NoNav, FALSE)
    ELSE IF eff.result.requiresRedirect /\ win
    THEN LET red == redirectToLogin(ver, Href, win)
         IN  HookState(Null, FALSE, OrElse(eff.result.message, MsgNotAuthenticated),
                       red.nav, red.threw)
    ELSE HookState(Null, FALSE, OrElse(eff.result.message, MsgNotAuthenticated),
                   NoNav, FALSE)

\* mutant: setError(result.message || 'Not authenticated') runs after the
\* if/else instead of inside the else branch
M_checkAuth_SetErrorOutsideElse(ver, eff, err, win) ==
    IF eff.threw
    THEN HookState(Null, FALSE, MsgCheckFailed, NoNav, FALSE)
    ELSE IF eff.result.authenticated /\ eff.result.user # Null
    THEN HookState(eff.result.user, FALSE,
                   OrElse(eff.result.message, MsgNotAuthenticated), NoNav, FALSE)
    ELSE IF eff.result.requiresRedirect /\ win
    THEN LET red == redirectToLogin(ver, Href, win)
         IN  HookState(Null, FALSE, err, red.nav, red.threw)
    ELSE HookState(Null, FALSE, OrElse(eff.result.message, MsgNotAuthenticated),
                   NoNav, FALSE)

checkAuth(ver, eff, err, win) ==
    IF eff.threw
    THEN \* catch: setError(err.message | 'Authentication check failed'); setUser(null)
         HookState(Null, FALSE, MsgCheckFailed, NoNav, FALSE)
    ELSE IF eff.result.authenticated /\ eff.result.user # Null
    THEN HookState(eff.result.user, FALSE, err, NoNav, FALSE)
    ELSE IF eff.result.requiresRedirect /\ win
    THEN LET red == redirectToLogin(ver, Href, win)
         IN  HookState(Null, FALSE, err, red.nav, red.threw)
    ELSE HookState(Null, FALSE, OrElse(eff.result.message, MsgNotAuthenticated),
                   NoNav, FALSE)

\* the header renders UserMenu, and the Logout button in it, only while the
\* context's user is set: when the user becomes null, or the provider
\* unmounts with the header in it (u is null), the button is discarded with
\* its isPending, and the next one starts with useState(false)
MenuRenders(u, pending) == IF u = Null THEN FALSE ELSE pending

\* setUser(u) re-renders unless Object.is(u, user): every user object parsed
\* from an answer is a new object, null is null
UserChanged(old, new) == old # Null \/ new # Null

\* the [user] effect of a render in which user changed, run with that
\* render's user: the cleanup of its previous run (stopPeriodicCheck, if that
\* run had a user), then startPeriodicCheck if the render had a user
\* mutant: the effect returns no cleanup
M_userEffect_NoCleanup(armed, u, ci, ts) ==
    IF u # Null THEN startPeriodicCheck(ci, ts) ELSE TimerState(ci, ts)

userEffect(armed, u, ci, ts) ==
    LET cleaned == IF armed THEN stopPeriodicCheck(ci, ts) ELSE TimerState(ci, ts)
    IN  IF u # Null THEN startPeriodicCheck(cleaned.checkInterval, cleaned.timers)
        ELSE cleaned

\* the timer and the effect's cleanup after the effects a render left pending
\* have run, if there are any (pending), on the timer as (ci, ts)
EffectState(ci, ts, armed, ran) ==
    [checkInterval |-> ci, timers |-> ts, armed |-> armed, ran |-> ran]

flushEffects(pending, armed, u, ci, ts) ==
    IF pending
    THEN LET tm == userEffect(armed, u, ci, ts)
         IN  EffectState(tm.checkInterval, tm.timers, u # Null, TRUE)
    ELSE EffectState(ci, ts, armed, FALSE)

\* the effects a step runs: when it renders, those the last render left
\* pending, with the hook's user of that render (hUser, until this step's
\* render), after the client has left the timer as (ci, ts)
Flushed(renders, ci, ts) ==
    flushEffects(renders /\ effectPending, cleanupArmed, hUser, ci, ts)

\* a step that may render the application
Render(renders, ci, ts) ==
    /\ checkInterval' = Flushed(renders, ci, ts).checkInterval
    /\ timers' = Flushed(renders, ci, ts).timers
    /\ cleanupArmed' = Flushed(renders, ci, ts).armed

\* the first effect: checkAuth() is called once
Mount ==
    /\ mounted = "initial"
    /\ hasWindow
    /\ mounted' = "mounted"
    /\ isLoading' = TRUE
    /\ error' = Null
    /\ SendVerify("hook")
    /\ UNCHANGED <<clientVars, hUser, effectPending, cleanupArmed, isPending, pageVars>>

\* a consumer of the context calls checkAuth(): setIsLoading(true) and
\* setError(null) render when they change something
HookCheckAuth ==
    /\ mounted = "mounted"
    /\ isLoading' = TRUE
    /\ error' = Null
    /\ Len(inflight) < MaxInFlight
    /\ inflight' = Append(inflight, Req("verify", "hook"))
    /\ LET renders == ~isLoading \/ error # Null
       IN  /\ Render(renders, checkInterval, timers)
           /\ effectPending' = (effectPending /\ ~renders)
           /\ last' = [Last("sendVerify", "hook", Authorization(version, token),
                             Null, NoResp, NoResult, FALSE, NoNav, NoBefore)
                        EXCEPT !.ranEffect = Flushed(renders, checkInterval,
                                                     timers).ran]
    /\ UNCHANGED <<location, pathname, version, hasWindow, user, token, storage,
                   mounted, hUser, isPending, pageVars>>

HookCheckResolves ==
    \E i \in 1..Len(inflight), resp \in Answers :
        /\ inflight[i] = Req("verify", "hook")
        /\ LET eff == checkAuthentication(version, resp, token, storage, hasWindow)
               h == checkAuth(version, eff, error, hasWindow)
               renders == /\ mounted = "mounted"
                          /\ \/ UserChanged(hUser, h.user)
                             \/ isLoading # h.isLoading
                             \/ error # h.error
           IN  /\ SessionAfter(eff)
               /\ Render(renders, checkInterval, timers)
               /\ IF mounted = "mounted"
                  THEN /\ hUser' = h.user
                       /\ isLoading' = h.isLoading
                       /\ error' = h.error
                       /\ effectPending' = IF renders THEN UserChanged(hUser, h.user)
                                           ELSE effectPending
                       /\ isPending' = MenuRenders(h.user, isPending)
                  ELSE UNCHANGED <<hUser, isLoading, error, effectPending, isPending>>
               /\ last' = [Settled("verify", "hook", Null, resp, eff.result,
                                    h.threw, h.nav)
                            EXCEPT !.ranEffect = Flushed(renders, checkInterval,
                                                         timers).ran]
        /\ inflight' = RemoveAt(inflight, i)
        /\ UNCHANGED <<mounted, pageVars>>

\* the effects the last render left pending run before anything else happens
RunEffects ==
    /\ mounted = "mounted"
    /\ effectPending
    /\ Render(TRUE, checkInterval, timers)
    /\ effectPending' = FALSE
    /\ last' = [Step("effect", "hook") EXCEPT !.ranEffect = TRUE]
    /\ UNCHANGED <<location, pathname, version, hasWindow, user, token, storage, inflight, mounted,
                   hUser, isLoading, error, isPending, pageVars>>

\* the provider unmounts: pending effects are flushed and the cleanup runs
\* mutant: unmounting runs no cleanup
M_unmountEffect_NoCleanup(armed, pending, u, ci, ts) == TimerState(ci, ts)

unmountEffect(armed, pending, u, ci, ts) ==
    IF armed \/ (pending /\ u # Null) THEN stopPeriodicCheck(ci, ts)
    ELSE TimerState(ci, ts)

Unmount ==
    /\ mounted = "mounted"
    /\ mounted' = "unmounted"
    /\ LET tm == unmountEffect(cleanupArmed, effectPending, hUser, checkInterval, timers)
       IN  /\ checkInterval' = tm.checkInterval
           /\ timers' = tm.timers
    /\ cleanupArmed' = FALSE
    /\ effectPending' = FALSE
    /\ isPending' = MenuRenders(Null, isPending)
    /\ last' = Step("unmount", "hook")
    /\ UNCHANGED <<location, pathname, version, hasWindow, user, token, storage,
                   inflight, hUser, isLoading, error, pageVars>>

\* the hook's logout from the answer on: the hook's user after it, given
\* whether authClient.logout() threw
\* mutant: the user is cleared in the catch block only
M_useAuth_logout_OnlyInCatch(threw, u) == IF threw THEN Null ELSE u

useAuth_logout(threw, u) ==
    IF threw
    THEN \* catch: setUser(null)
         Null
    ELSE \* after the await: setUser(null)
         Null

\* the user menu's Sign Out item (rendered while the hook has a user) is
\* clicked beside the Logout button in it: the hook's logout() is called
HookLogout ==
    /\ mounted = "mounted"
    /\ hUser # Null
    /\ SendLogout("hook")
    /\ UNCHANGED <<clientVars, hookVars, isPending, pageVars>>

HookLogoutResolves ==
    \E i \in 1..Len(inflight), outcome \in LogoutOutcomes :
        /\ inflight[i] = Req("logout", "hook")
        /\ LET eff == logout(version, outcome, token, storage, checkInterval,
                             timers, hasWindow)
               u == useAuth_logout(eff.threw, hUser)
               renders == mounted = "mounted" /\ UserChanged(hUser, u)
           IN  /\ SessionAfter(eff)
               /\ Render(renders, eff.checkInterval, eff.timers)
               /\ IF mounted = "mounted"
                  THEN /\ hUser' = u
                       /\ effectPending' = IF renders THEN UserChanged(hUser, u)
                                           ELSE effectPending
                       /\ isPending' = MenuRenders(u, isPending)
                  ELSE UNCHANGED <<hUser, effectPending, isPending>>
               /\ last' = [Settled("logout", "hook", outcome, NoResp, NoResult,
                                    FALSE, eff.nav)
                            EXCEPT !.ranEffect = Flushed(renders, eff.checkInterval,
                                                         eff.timers).ran]
        /\ inflight' = RemoveAt(inflight, i)
        /\ UNCHANGED <<mounted, isLoading, error, pageVars>>

(***************************************************************************)
(* The Logout button: authClient.logout() directly.  It is rendered inside  *)
(* the user menu's Sign Out item, so a click on it runs handleLogout of the *)
(* button and then, as the click bubbles, handleLogout of the item, which   *)
(* calls the hook's logout(): two logout requests are sent by one click.    *)
(* (HookLogout is a click on the item beside the button.)                   *)
(***************************************************************************)
\* setIsPending(true) renders the button
ButtonClick ==
    /\ mounted = "mounted"
    /\ hUser # Null
    /\ ~isPending
    /\ isPending' = TRUE
    /\ Len(inflight) + 2 <= MaxInFlight
    /\ inflight' = inflight \o <<Req("logout", "button"), Req("logout", "hook")>>
    /\ Render(TRUE, checkInterval, timers)
    /\ effectPending' = FALSE
    /\ last' = [Last("sendLogout", "button", Authorization(version, token),
                      Null, NoResp, NoResult, FALSE, NoNav, NoBefore)
                 EXCEPT !.ranEffect = Flushed(TRUE, checkInterval, timers).ran]
    /\ UNCHANGED <<location, pathname, version, hasWindow, user, token, storage,
                   mounted, hUser, isLoading, error, pageVars>>

\* the request of the button that is rendered, while its isPending is true:
\* the button logout issued last (a button sends none while it is pending,
\* and the requests of discarded buttons were issued before it was rendered);
\* setIsPending of a discarded button does nothing
OfTheButton(reqs) ==
    CHOOSE i \in 1..Len(reqs) :
        /\ reqs[i] = Req("logout", "button")
        /\ \A j \in (i + 1)..Len(reqs) : reqs[j] # Req("logout", "button")

\* the titles of the two toasts
ToastSuccess == "Success"
ToastError == "Error"

\* handleLogout from the answer on, given whether authClient.logout() threw:
\* the toast shown and isPending after the finally block
handleLogout(threw) ==
    IF threw
    THEN \* catch: toast Error; finally: setIsPending(false)
         [toast |-> ToastError, isPending |-> FALSE]
    ELSE \* after the await: toast Success; finally: setIsPending(false)
         [toast |-> ToastSuccess, isPending |-> FALSE]

ButtonResolves ==
    \E i \in 1..Len(inflight), outcome \in LogoutOutcomes :
        /\ inflight[i] = Req("logout", "button")
        /\ LET eff == logout(version, outcome, token, storage, checkInterval,
                             timers, hasWindow)
               h == handleLogout(eff.threw)
               pending == IF isPending /\ i = OfTheButton(inflight)
                          THEN h.isPending ELSE isPending
               renders == pending # isPending
           IN  /\ SessionAfter(eff)
               /\ Render(renders, eff.checkInterval, eff.timers)
               /\ effectPending' = (effectPending /\ ~renders)
               /\ last' = [Settled("logout", "button", outcome, NoResp, NoResult,
                                FALSE, eff.nav)
                            EXCEPT !.view = h.toast,
                                   !.ranEffect = Flushed(renders, eff.checkInterval,
                                                         eff.timers).ran]
               /\ isPending' = pending
        /\ inflight' = RemoveAt(inflight, i)
        /\ UNCHANGED <<mounted, hUser, isLoading, error, pageVars>>

(***************************************************************************)
(* Spec: the application as wired, in a browser: the hook in AuthProvider, *)
(* the user menu with its two logout paths, and the interval timer.        *)
(***************************************************************************)
Init ==
    \E ver \in Versions :
        \E st \in StoredAtLoad(ver, TRUE) : InitWith(ver, TRUE, st)

Next ==
    \/ Mount
    \/ HookCheckAuth
    \/ HookCheckResolves
    \/ RunEffects
    \/ Unmount
    \/ HookLogout
    \/ HookLogoutResolves
    \/ ButtonClick
    \/ ButtonResolves
    \/ Tick
    \/ TickResolves

Spec == Init /\ [][Next]_vars

(***************************************************************************)
(* What useAuth returns, its role queries, the context and the route       *)
(* guard.                                                                  *)
(***************************************************************************)
useAuth_hasRole(u, role) == u # Null /\ RoleOf(u) = role

useAuth_hasAnyRole(u, roles) == IF u # Null THEN RoleOf(u) \in roles ELSE FALSE

useAuth_isAdmin(u) == useAuth_hasAnyRole(u, {"admin", "super_admin"})

\* useAuthContext: the provider's value, or an Error when there is no provider
ContextEffect(value, threw) == [value |-> value, threw |-> threw]

useAuthContext(provided, value) ==
    IF provided THEN ContextEffect(value, FALSE) ELSE ContextEffect(NoContext, TRUE)

\* what a guarded component renders, and the navigation rendering it makes
Loading == "loading"
Redirecting == "redirecting"
AccessDenied == "denied"
Wrapped == "component"
\* the fallback option: not given, a falsy node, an element
Fallbacks == {Null, "", "fallback"}

GuardEffect(view, nav, threw) == [view |-> view, nav |-> nav, threw |-> threw]

\* mutant: the guard does not wait for the first check
M_withAuth_NoLoadingGate(ctx, requiredRoles, fallback, win) ==
    IF ctx.threw THEN GuardEffect(Null, NoNav, TRUE)
    ELSE IF ~ctx.value.isAuthenticated
    THEN IF Truthy(fallback) THEN GuardEffect(fallback, NoNav, FALSE)
         ELSE GuardEffect(Redirecting,
                          IF win THEN Url("/auth/users/login",
                                          encodeURIComponent(pathname))
                                 ELSE NoNav,
                          FALSE)
    ELSE IF requiredRoles # {} /\ ~useAuth_hasAnyRole(ctx.value.user, requiredRoles)
    THEN GuardEffect(AccessDenied, NoNav, FALSE)
    ELSE GuardEffect(Wrapped, NoNav, FALSE)

\* AuthenticatedComponent, given what useAuthContext gave (ctx)
withAuth(ctx, requiredRoles, fallback, win) ==
    IF ctx.threw THEN GuardEffect(Null, NoNav, TRUE)
    ELSE IF ctx.value.isLoading THEN GuardEffect(Loading, NoNav, FALSE)
    ELSE IF ~ctx.value.isAuthenticated
    THEN IF Truthy(fallback) THEN GuardEffect(fallback, NoNav, FALSE)
         ELSE GuardEffect(Redirecting,
                          IF win THEN Url("/auth/users/login",
                                          encodeURIComponent(pathname))
                                 ELSE NoNav,
                          FALSE)
    ELSE IF requiredRoles # {} /\ ~useAuth_hasAnyRole(ctx.value.user, requiredRoles)
    THEN GuardEffect(AccessDenied, NoNav, FALSE)
    ELSE GuardEffect(Wrapped, NoNav, FALSE)

ApiHasRole ==
    \E role \in Roles :
        /\ last' = [Step("hasRole", "api") EXCEPT
                        !.arg = role, !.returned = hasRole(user, role)]
        /\ UNCHANGED calledVars

ApiHasAnyRole ==
    \E roles \in SUBSET Roles :
        /\ last' = [Step("hasAnyRole", "api") EXCEPT
                        !.roles = roles, !.returned = hasAnyRole(user, roles)]
        /\ UNCHANGED calledVars

ApiIsAdmin ==
    /\ last' = [Step("isAdmin", "api") EXCEPT !.returned = isAdmin(user)]
    /\ UNCHANGED calledVars

HookHasRole ==
    \E role \in Roles :
        /\ last' = [Step("hasRole", "hook") EXCEPT
                        !.arg = role, !.returned = useAuth_hasRole(hUser, role)]
        /\ UNCHANGED calledVars

HookHasAnyRole ==
    \E roles \in SUBSET Roles :
        /\ last' = [Step("hasAnyRole", "hook") EXCEPT
                        !.roles = roles,
                        !.returned = useAuth_hasAnyRole(hUser, roles)]
        /\ UNCHANGED calledVars

HookIsAdmin ==
    /\ last' = [Step("isAdmin", "hook") EXCEPT !.returned = useAuth_isAdmin(hUser)]
    /\ UNCHANGED calledVars

\* a component calls useAuthContext(), under the provider or not
UseAuthContext ==
    \E provided \in BOOLEAN :
        LET ctx == useAuthContext(provided, UseAuthReturn(hUser, isLoading, error))
        IN  /\ last' = [Step("useAuthContext", "component") EXCEPT
                            !.provided = provided, !.threw = ctx.threw,
                            !.context = ctx.value]
            /\ UNCHANGED calledVars

\* a component wrapped by withAuth renders
GuardRenders ==
    \E provided \in BOOLEAN, requiredRoles \in SUBSET Roles, fallback \in Fallbacks :
        LET ctx == useAuthContext(provided, UseAuthReturn(hUser, isLoading, error))
            g == withAuth(ctx, requiredRoles, fallback, hasWindow)
        IN  /\ last' = [Step("withAuth", "component") EXCEPT
                            !.provided = provided, !.roles = requiredRoles,
                            !.arg = fallback, !.view = g.view, !.nav = g.nav,
                            !.threw = g.threw]
            /\ UNCHANGED calledVars

(***************************************************************************)
(* SpecGuard: what components call while they render, on the hook as its   *)
(* latest check left it.  Init draws that state: in a browser the hook is  *)
(* mounted, with a user of some role or none, a check awaited or not;      *)
(* without a window (server rendering) no effect has run.                  *)
(***************************************************************************)
InitGuard ==
    \E ver \in Versions :
        \/ InitWith(ver, FALSE, Null)
        \/ \E u \in RoleUsers \cup {Null}, ld \in BOOLEAN :
              /\ version = ver
              /\ hasWindow = TRUE
              /\ location = PlainQuery
              /\ pathname = PagePath
              /\ storage = Null
              /\ token = Null
              /\ user = u
              /\ checkInterval = NoTimer
              /\ timers = {}
              /\ inflight = IF ld THEN <<Req("verify", "hook")>> ELSE << >>
              /\ last = Step("init", Null)
              /\ mounted = "mounted"
              /\ hUser = u
              /\ isLoading = ld
              /\ error = IF u = Null /\ ~ld THEN MsgNotAuthenticated ELSE Null
              /\ effectPending = (u # Null)
              /\ cleanupArmed = FALSE
              /\ isPending = FALSE
              /\ status = "loading"
              /\ scheduled = EmptyBag

NextGuard ==
    \/ ApiHasRole
    \/ ApiHasAnyRole
    \/ ApiIsAdmin
    \/ HookHasRole
    \/ HookHasAnyRole
    \/ HookIsAdmin
    \/ UseAuthContext
    \/ GuardRenders
    \/ ApiRedirectToLogin

SpecGuard == InitGuard /\ [][NextGuard]_vars

(***************************************************************************)
(* SpecUrl: a page load at a URL that may carry the OAuth callback's        *)
(* parameters, up to the requests it sends: the singleton is constructed,  *)
(* its token methods, initializeFromUrl, checkAuthentication and logout    *)
(* may be called, the provider mounts.  What the answer to the hook's      *)
(* check does is Spec's subject.                                           *)
(***************************************************************************)
InitUrl ==
    \E ver \in Versions, win \in BOOLEAN, q \in Queries :
        \E st \in StoredAtLoad(ver, win) : InitAt(ver, win, st, q)

NextUrl ==
    \/ ApiInitializeFromUrl
    \/ Mount
    \/ ApiCheck
    \/ ApiCheckResolves
    \/ ApiLogout
    \/ ApiLogoutResolves
    \/ ApiSetToken
    \/ ApiClearToken

SpecUrl == InitUrl /\ [][NextUrl]_vars

(***************************************************************************)
(* The auth callback page (app/auth/callback/page.tsx): its effect awaits  *)
(* checkAuthentication, sets status and sets one timeout, which navigates  *)
(* when it fires.  Each setTimeout makes a timer of its own: scheduled is   *)
(* the bag of the timeouts set and not yet fired (any of them may be the   *)
(* next to fire: the page sets them at different times).                   *)
(***************************************************************************)
DefaultCallback == "/profile"
SuccessDelay == 1500
ErrorDelay == 3000

\* setTimeout(fn, delay): what fn does ("href": window.location.href = target;
\* "redirectToLogin": authClient.redirectToLogin())
Timeout(delay, does, target) == [delay |-> delay, does |-> does, target |-> target]

PageState(st, timeout) == [status |-> st, timeout |-> timeout]

\* mutant: the callbackUrl parameter is used as it is read
M_handleAuthCallback_NoDefault(eff, q) ==
    IF eff.threw
    THEN PageState("error", Timeout(ErrorDelay, "redirectToLogin", Null))
    ELSE IF eff.result.authenticated /\ eff.result.user # Null
    THEN PageState("success",
                   Timeout(SuccessDelay, "href", QueryGet(q, "callbackUrl")))
    ELSE PageState("error", Timeout(ErrorDelay, "redirectToLogin", Null))

\* handleAuthCallback from the answer on, given what checkAuthentication did
\* (eff) and the page's query (searchParams)
handleAuthCallback(eff, q) ==
    IF eff.threw
    THEN \* catch: setStatus("error"); setTimeout(redirectToLogin, 3000)
         PageState("error", Timeout(ErrorDelay, "redirectToLogin", Null))
    ELSE IF eff.result.authenticated /\ eff.result.user # Null
    THEN PageState("success",
                   Timeout(SuccessDelay, "href",
                           OrElse(QueryGet(q, "callbackUrl"), DefaultCallback)))
    ELSE PageState("error", Timeout(ErrorDelay, "redirectToLogin", Null))

\* the checks of the page that are in flight
CallbackChecksInFlight ==
    {i \in 1..Len(inflight) : inflight[i] = Req("verify", "callback")}

\* the page's effect runs (after the first render, and again when
\* searchParams or router change): checkAuthentication() is called
CallbackEffect ==
    /\ hasWindow
    /\ BagCardinality(scheduled) + Cardinality(CallbackChecksInFlight) < MaxTimeouts
    /\ SendVerify("callback")
    /\ UNCHANGED <<clientVars, hookVars, isPending, pageVars>>

CallbackResolves ==
    \E i \in 1..Len(inflight), resp \in Answers :
        /\ inflight[i] = Req("verify", "callback")
        /\ LET eff == checkAuthentication(version, resp, token, storage, hasWindow)
               h == handleAuthCallback(eff, location)
               renders == h.status # status
           IN  /\ SessionAfter(eff)
               /\ Render(renders, checkInterval, timers)
               /\ effectPending' = (effectPending /\ ~renders)
               /\ status' = h.status
               /\ scheduled' = scheduled (+) SetToBag({h.timeout})
               /\ last' = [Settled("verify", "callback", Null, resp, eff.result,
                                    FALSE, NoNav)
                            EXCEPT !.view = h.timeout,
                                   !.ranEffect = Flushed(renders, checkInterval,
                                                         timers).ran]
        /\ inflight' = RemoveAt(inflight, i)
        /\ UNCHANGED <<mounted, hUser, isLoading, error, isPending>>

\* a timeout of the page fires
TimeoutFires ==
    \E t \in BagToSet(scheduled) :
        /\ scheduled' = scheduled (-) SetToBag({t})
        /\ IF t.does = "href"
           THEN last' = [Step("timeout", "callback") EXCEPT
                             !.view = t, !.arg = t.target]
           ELSE LET red == redirectToLogin(version, Null, hasWindow)
                IN  last' = [Step("timeout", "callback") EXCEPT
                                 !.view = t, !.nav = red.nav, !.threw = red.threw]
        /\ UNCHANGED <<clientVars, inflight, hookVars, isPending, status>>

InitCallback ==
    \E ver \in Versions, q \in CallbackQueries :
        \E st \in StoredAtLoad(ver, TRUE) :
            InitPage(ver, TRUE, st, CallbackPath, q)

\* the page is rendered inside the root layout's AuthProvider, below the
\* header: the hook's effects run beside the page's, and the user menu offers
\* its two ways to sign out.  The root layout unmounts only with the document,
\* and the page and its timeouts with it.
NextCallback ==
    \/ CallbackEffect
    \/ CallbackResolves
    \/ TimeoutFires
    \/ Mount
    \/ HookCheckResolves
    \/ RunEffects
    \/ HookLogout
    \/ HookLogoutResolves
    \/ ButtonClick
    \/ ButtonResolves
    \/ Tick
    \/ TickResolves

SpecCallback == InitCallback /\ [][NextCallback]_vars

(***************************************************************************)
(* Properties.                                                             *)
(***************************************************************************)
\* a step in which checkAuthentication, called by `caller`, resolved
Verified(caller) == last.op = "verify" /\ last.caller = caller
\* a step in which logout() settled
LoggedOut == last.op = "logout"

\* the login pages of the access-management service the two classes name
LoginPaths == {"/auth/users/login", "/auth/user/login"}

\* C1: whenever a checkAuthentication call resolves with authenticated=false
\* (non-OK status, flag false, no user payload, 401 with or without
\* requiresRedirect, malformed body, network rejection), getCurrentUser() is
\* null right after it, in both classes, in and outside a browser.
C1_FailedCheckClearsUser ==
    (last.op = "verify" /\ ~last.result.authenticated) => user = Null

\* a check failed, while a user was cached, on a body that denies the session
\* yet carries a user
C1_Witness ==
    /\ Verified("api")
    /\ ~last.result.authenticated
    /\ last.resp.kind = "object"
    /\ last.resp.body.user # Null
    /\ last.before.user # Null
    /\ user = Null

\* C2: once logout() has settled, whatever the POST did (2xx, non-2xx,
\* rejection), the token is null in memory, the local-storage entry is gone
\* and no periodic timer is armed (checkInterval is null).
C2_LogoutClearsTokenAndTimer ==
    LoggedOut =>
        /\ token = Null
        /\ storage = Null
        /\ checkInterval = NoTimer
        /\ timers = {}

\* the token version's logout settled in a browser after the request was
\* rejected, with a token stored and a timer armed when it settled
C2_Witness ==
    /\ LoggedOut
    /\ last.outcome = "reject"
    /\ version = "token"
    /\ hasWindow
    /\ last.before.token # Null
    /\ last.before.storage # Null
    /\ last.before.armed
    /\ token = Null
    /\ storage = Null
    /\ checkInterval = NoTimer

\* C3 as stated: logout() never throws to its caller and, for every outcome
\* of the request (2xx, non-2xx, rejection), it ends with the cached user
\* null and, where there is a browser, a navigation to the login page of the
\* access-management service.
C3_Original ==
    LoggedOut =>
        /\ ~last.threw
        /\ user = Null
        /\ hasWindow =>
              /\ last.nav.path \in LoginPaths
              /\ last.nav.callbackUrl = Null

\* C4: at most one periodic timer is armed, and it is the one checkInterval
\* holds; right after startPeriodicCheck exactly one is armed, so a timer
\* started earlier is cancelled and cannot fire again.
C4_AtMostOneTimer ==
    /\ Cardinality(timers) <= 1
    /\ \A id \in timers : id = checkInterval
    /\ last.op = "start" => (checkInterval # NoTimer /\ timers = {checkInterval})

\* startPeriodicCheck was called while a timer was armed: the handle is the
\* second one and it is the only armed timer
C4_Witness ==
    /\ last.op = "start"
    /\ checkInterval > 1
    /\ timers = {checkInterval}

NoTimerOnceEffectRanWithoutUser == (hUser = Null /\ ~effectPending) => timers = {}

C5_WitnessStaleEffect ==
    /\ LoggedOut
    /\ last.ranEffect
    /\ last.before.armed
    /\ user = Null
    /\ timers # {}

\* C6 as stated: whenever the hook's user is non-null and the effect has run,
\* a periodic timer is armed; it is stopped when the hook's user is null or
\* the hook is unmounted.
C6_Original ==
    /\ (mounted = "mounted" /\ ~effectPending /\ hUser # Null) => timers # {}
    /\ (mounted = "mounted" /\ ~effectPending /\ hUser = Null) => timers = {}
    /\ mounted = "unmounted" => timers = {}

\* a timer is disarmed only by a settled logout, the effect or unmounting
TimerDisarmedOnlyBy ==
    (timers # {} /\ timers' = {}) =>
        (last'.op \in {"logout", "unmount"} \/ last'.ranEffect)

\* a timer is armed only by the effect, run for a render with a user
TimerArmedOnlyBy ==
    (timers' # {} /\ timers' # timers) => (last'.ranEffect /\ hUser # Null)

\* the effect runs only when a render left it pending, and for the user of
\* that render (the hook's user before the step, not the one the step sets)
EffectRunsForRenderedUser ==
    last'.ranEffect => (effectPending /\ cleanupArmed' = (hUser # Null))

\* C6, amended: the [user] effect arms the timer whenever it runs for a
\* render with a non-null user; it runs after that render, at the latest when
\* the application renders next, and for the user of the render that left it
\* pending.  The timer then stays armed until an effect runs again, the hook
\* unmounts, or AuthClient.logout() settles (the Logout button calls it
\* directly and leaves the hook's user set until the hook's logout, sent by
\* the same click, settles); no timer is armed when the
\* effect last ran for a render with a null user, or after unmounting.
C6_TimerFollowsHookUser ==
    /\ [](/\ (last.ranEffect /\ cleanupArmed) =>
                (checkInterval # NoTimer /\ timers = {checkInterval})
          /\ timers # {} => cleanupArmed
          /\ (mounted = "mounted" /\ ~effectPending /\ hUser = Null) => timers = {}
          /\ mounted = "unmounted" => timers = {})
    /\ [][TimerDisarmedOnlyBy /\ TimerArmedOnlyBy /\ EffectRunsForRenderedUser]_vars

\* the effect has just armed the timer for a user
C6_Witness ==
    /\ last.op = "effect"
    /\ hUser # Null
    /\ timers = {checkInterval}
    /\ checkInterval # NoTimer

\* the hook unmounted while it had a user, and the timer is gone
C6_WitnessUnmount ==
    /\ last.op = "unmount"
    /\ hUser # Null
    /\ timers = {}

\* the hook's logout was answered while the effect of the render with the
\* user was pending: that effect has armed the timer, the hook's user is null
C6_WitnessStaleEffect ==
    /\ LoggedOut
    /\ last.caller = "hook"
    /\ last.ranEffect
    /\ hUser = Null
    /\ timers = {checkInterval}

\* the answer is HTTP 401 with a JSON object as body
Answer401 == last.resp.kind = "object" /\ last.resp.status = 401

\* C7 as stated: any verification failure, logout failure or network error
\* clears token and user together, so after a failed check or a logout
\* resolves no partial state is left (user cleared while a token is stored).
C7_Original ==
    (LoggedOut \/ (last.op = "verify" /\ ~last.result.authenticated))
        => (user = Null /\ token = Null /\ storage = Null)

\* a failed check that is not a 401 answer leaves token and storage as they were
OtherFailureKeepsToken ==
    (last'.op = "verify" /\ ~last'.result.authenticated /\ ~Answer401')
        => (token' = token /\ storage' = storage)

\* C7, amended: a successful verify caches the user and, when the answer
\* carries a token, the token with it; a 401 answer and a logout (whatever
\* its outcome) clear both user and token; any other failed check (other
\* status, malformed body, network error) clears the user only and leaves
\* the token as it was.
C7_TokenUserLifecycle ==
    /\ [](/\ LoggedOut => (user = Null /\ token = Null /\ storage = Null)
          /\ (last.op = "verify" /\ ~last.result.authenticated) => user = Null
          /\ (last.op = "verify" /\ ~last.result.authenticated /\ Answer401)
                => (token = Null /\ storage = Null)
          /\ (last.op = "verify" /\ last.result.authenticated)
                => /\ user = last.result.user
                   /\ user # Null
                   /\ last.result.token # Null =>
                         /\ token = last.result.token
                         /\ hasWindow => storage = token)
    /\ [][OtherFailureKeepsToken]_vars

\* a 401 answer cleared a stored token together with the user
C7_Witness ==
    /\ Verified("api")
    /\ Answer401
    /\ ~last.resp.body.requiresRedirect
    /\ last.before.token # Null
    /\ last.before.user # Null
    /\ token = Null
    /\ user = Null

\* a network error cleared the user and left the stored token
C7_WitnessPartial ==
    /\ Verified("api")
    /\ last.resp.kind = "reject"
    /\ last.before.user # Null
    /\ user = Null
    /\ token # Null
    /\ storage = token

\* C8: checkAuthentication never throws: for a network rejection, a
\* malformed body and any HTTP status it resolves; every negative result
\* carries a non-empty message; requiresRedirect is set only for a 401 answer
\* whose body asks for the redirect.
C8_CheckNeverThrows ==
    Verified("api") =>
        /\ ~last.threw
        /\ (Throws(last.resp) \/ ~Ok(last.resp.status)) => ~last.result.authenticated
        /\ ~last.result.authenticated => last.result.message \notin {Null, ""}
        /\ last.result.requiresRedirect =>
              /\ ~last.result.authenticated
              /\ Answer401
              /\ last.resp.body.requiresRedirect

\* a body that is not JSON ended in the network-error result
C8_Witness ==
    /\ Verified("api")
    /\ last.resp.kind = "badjson"
    /\ ~last.threw
    /\ ~last.result.authenticated
    /\ last.result.message = MsgNetwork
    /\ ~last.result.requiresRedirect

\* the answer is the cross-domain one: 401, requiresRedirect and a loginUrl
CrossDomainAnswer ==
    /\ Answer401
    /\ last.resp.body.requiresRedirect
    /\ last.resp.body.loginUrl # Null

\* C9: on HTTP 401 with requiresRedirect=true and a loginUrl, the token
\* class's checkAuthentication clears the cached user and the token (memory
\* and storage), returns authenticated=false, requiresRedirect=true and the
\* server's loginUrl, does not navigate and does not throw.
C9_CrossDomainClearsAndReports ==
    (Verified("api") /\ version = "token" /\ CrossDomainAnswer) =>
        /\ user = Null
        /\ token = Null
        /\ storage = Null
        /\ ~last.result.authenticated
        /\ last.result.requiresRedirect
        /\ last.result.loginUrl = last.resp.body.loginUrl
        /\ last.nav = NoNav
        /\ ~last.threw

\* the cross-domain answer arrived in a browser while a user and a token were held
C9_Witness ==
    /\ Verified("api")
    /\ version = "token"
    /\ hasWindow
    /\ CrossDomainAnswer
    /\ last.before.user # Null
    /\ last.before.storage # Null
    /\ last.result.loginUrl = ServerLoginUrl
    /\ token = Null
    /\ storage = Null

\* the answer is HTTP 200 with authenticated=true and a user payload
SuccessAnswer ==
    /\ last.resp.kind = "object"
    /\ last.resp.status = 200
    /\ last.resp.body.authenticated
    /\ last.resp.body.user # Null

\* C10 as stated: when verify-session answers 200 with authenticated=true and
\* a user, the hook's checkAuth ends with isLoading=false,
\* isAuthenticated=true, error=null and the answer's user.
C10_Original ==
    (Verified("hook") /\ mounted = "mounted" /\ SuccessAnswer) =>
        /\ ~isLoading
        /\ hUser # Null
        /\ hUser = last.resp.body.user
        /\ error = Null

\* checkAuth resets error when it is called and its success path does not
\* write it
SuccessKeepsError ==
    /\ (last'.op = "sendVerify" /\ last'.caller = "hook") => error' = Null
    /\ (last'.op = "verify" /\ last'.caller = "hook" /\ SuccessAnswer')
          => error' = error

\* C10, amended: on such an answer the hook's checkAuth ends with
\* isLoading=false, isAuthenticated=true and the answer's user; error is what
\* it was when the answer arrived: null as checkAuth set it when called,
\* unless another checkAuth call that overlapped this one failed meanwhile.
C10_SuccessEndsAuthenticated ==
    /\ []((Verified("hook") /\ mounted = "mounted" /\ SuccessAnswer) =>
            /\ ~isLoading
            /\ hUser # Null
            /\ hUser = last.resp.body.user)
    /\ [][SuccessKeepsError]_vars

\* the check made on mount got user "1" (role admin)
C10_Witness ==
    /\ Verified("hook")
    /\ mounted = "mounted"
    /\ SuccessAnswer
    /\ ~isLoading
    /\ hUser = "1"
    /\ RoleOf(hUser) = "admin"
    /\ error = Null

\* C11: when the verify-session call rejects (network failure), the hook's
\* checkAuth ends with user=null, isAuthenticated=false, isLoading=false and
\* error set to the network-error message the client produced.
C11_NetworkRejectEndsLoggedOut ==
    (Verified("hook") /\ mounted = "mounted" /\ last.resp.kind = "reject") =>
        /\ hUser = Null
        /\ ~isLoading
        /\ error = MsgNetwork
        /\ last.result.message = MsgNetwork
        /\ ~last.threw

\* the hook's check was rejected by the network while the client had a user
\* cached and a timer armed for it
C11_Witness ==
    /\ Verified("hook")
    /\ mounted = "mounted"
    /\ last.resp.kind = "reject"
    /\ last.before.user # Null
    /\ last.before.armed
    /\ hUser = Null
    /\ ~isLoading
    /\ error = MsgNetwork

\* the parameters of a query other than token and sessionId, in order
OtherParams(q) == SelectSeq(q, LAMBDA p : p.key \notin {"token", "sessionId"})

\* the hook's first effect runs
MountStep == mounted = "initial" /\ mounted' = "mounted"

\* C12: on mount the hook first scans the URL for a token parameter and, if
\* there is one, adopts it as the client's session token and strips token and
\* sessionId from the visible URL; then, token or not, it performs exactly
\* one authentication check.
C12_Original ==
    [][MountStep =>
          /\ Truthy(QueryGet(location, "token")) =>
                /\ token' = QueryGet(location, "token")
                /\ QueryGet(location', "token") = Null
                /\ QueryGet(location', "sessionId") = Null
          /\ Len(inflight') = Len(inflight) + 1
          /\ inflight'[Len(inflight')] = Req("verify", "hook")]_vars

\* initializeFromUrl in a browser, as one step
InitializeFromUrlStep ==
    (last'.op = "initializeFromUrl" /\ hasWindow) =>
        IF Truthy(QueryGet(location, "token"))
        THEN /\ token' = QueryGet(location, "token")
             /\ storage' = token'
             /\ \A i \in 1..Len(location') :
                    location'[i].key \notin {"token", "sessionId"}
             /\ OtherParams(location') = OtherParams(location)
             /\ last'.returned
        ELSE /\ token' = token
             /\ storage' = storage
             /\ location' = location
             /\ ~last'.returned

\* C13: initializeFromUrl in a browser: when the query has a non-empty token
\* parameter, afterwards getToken() is that value, local storage holds it,
\* the visible URL has neither token nor sessionId and keeps every other
\* parameter, and the result is true; when it has none (or an empty one),
\* token, storage and URL are unchanged and the result is false.
C13_UrlTokenAdoption == [][InitializeFromUrlStep]_vars

\* the token of ?tab=1&token=abc123&sessionId=xyz replaced a stored one and
\* the URL is back to ?tab=1
C13_Witness ==
    /\ last.op = "initializeFromUrl"
    /\ hasWindow
    /\ last.returned
    /\ last.before.token \in Tokens
    /\ token = "abc123"
    /\ storage = "abc123"
    /\ location = PlainQuery

\* a call at a URL with a sessionId and no token returned false and left
\* everything as it was
C13_WitnessNoToken ==
    /\ last.op = "initializeFromUrl"
    /\ hasWindow
    /\ ~last.returned
    /\ QueryGet(location, "sessionId") = "xyz"
    /\ token = last.before.token
    /\ storage = last.before.storage

\* the roles that make an administrator
AdminRoles == {"admin", "super_admin"}

\* C14: isAdmin() is true iff a user is cached and its role is exactly
\* "admin" or "super_admin": false for any other role string and with no
\* user cached; it agrees with hasAnyRole(["admin","super_admin"]); the same
\* holds for the hook's isAdmin over the hook's user.
C14_IsAdminIffAdminRole ==
    /\ (last.op = "isAdmin" /\ last.caller = "api") =>
          /\ last.returned <=>
                (user # Null /\ (RoleOf(user) = "admin" \/ RoleOf(user) = "super_admin"))
          /\ last.returned = hasAnyRole(user, AdminRoles)
    /\ (last.op = "isAdmin" /\ last.caller = "hook") =>
          /\ last.returned <=>
                (hUser # Null /\ (RoleOf(hUser) = "admin" \/ RoleOf(hUser) = "super_admin"))
          /\ last.returned = useAuth_hasAnyRole(hUser, AdminRoles)
    /\ (last.op = "hasAnyRole" /\ last.caller = "api" /\ last.roles = AdminRoles) =>
          last.returned = isAdmin(user)

\* isAdmin() answered true for a cached super_admin
C14_Witness ==
    /\ last.op = "isAdmin"
    /\ last.caller = "api"
    /\ user # Null
    /\ RoleOf(user) = "super_admin"
    /\ last.returned

\* the hook's isAdmin() answered false for a user whose role is "Admin"
C14_WitnessOtherRole ==
    /\ last.op = "isAdmin"
    /\ last.caller = "hook"
    /\ hUser # Null
    /\ RoleOf(hUser) = "Admin"
    /\ ~last.returned

\* a guarded component has rendered under the provider
Guarded == last.op = "withAuth" /\ last.provided

\* C17: the guard decides in this order: (1) isLoading: the loading
\* placeholder, whatever the auth state; (2) not authenticated with a
\* fallback: the fallback, no redirect; (3) not authenticated without one:
\* navigation to the external login with the current path as callbackUrl;
\* (4) authenticated, requiredRoles non-empty and the user's role not among
\* them: the access-denied view; (5) otherwise the wrapped component.  So
\* the wrapped component is rendered only when isLoading is false, the user
\* is authenticated and requiredRoles is empty or has the user's role.
C17_GuardPriority ==
    Guarded =>
        /\ ~last.threw
        /\ isLoading => (last.view = Loading /\ last.nav = NoNav)
        /\ (~isLoading /\ hUser = Null /\ Truthy(last.arg)) =>
              (last.view = last.arg /\ last.nav = NoNav)
        /\ (~isLoading /\ hUser = Null /\ ~Truthy(last.arg)) =>
              /\ last.view = Redirecting
              /\ hasWindow =>
                    last.nav = Url("/auth/users/login", encodeURIComponent(PagePath))
        /\ (~isLoading /\ hUser # Null /\ last.roles # {}
               /\ RoleOf(hUser) \notin last.roles) =>
              (last.view = AccessDenied /\ last.nav = NoNav)
        /\ (~isLoading /\ hUser # Null
               /\ (last.roles = {} \/ RoleOf(hUser) \in last.roles)) =>
              (last.view = Wrapped /\ last.nav = NoNav)
        /\ last.view = Wrapped =>
              /\ ~isLoading
              /\ hUser # Null
              /\ last.roles = {} \/ RoleOf(hUser) \in last.roles

\* a component that requires admin or super_admin rendered for a super_admin
C17_Witness ==
    /\ Guarded
    /\ ~isLoading
    /\ hUser # Null
    /\ RoleOf(hUser) = "super_admin"
    /\ last.roles = AdminRoles
    /\ last.view = Wrapped

\* with nobody signed in and no fallback the guard navigated to the login
\* page with the current path
C17_WitnessRedirect ==
    /\ Guarded
    /\ ~isLoading
    /\ hUser = Null
    /\ last.arg = Null
    /\ last.view = Redirecting
    /\ last.nav = Url("/auth/users/login", "%2Fprofile")

\* while a re-check is awaited a signed-in user sees the placeholder
C17_WitnessLoading ==
    /\ Guarded
    /\ isLoading
    /\ hUser # Null
    /\ last.view = Loading

\* C18: useAuthContext throws an explicit error when there is no enclosing
\* AuthProvider and returns the hook's state without throwing inside one;
\* nowhere else does the public API of the auth layer throw.
C18_Original ==
    /\ last.op = "useAuthContext" =>
          /\ last.threw <=> ~last.provided
          /\ last.provided =>
                last.context = UseAuthReturn(hUser, isLoading, error)
    /\ last.threw =>
          (last.op \in {"useAuthContext", "withAuth"} /\ ~last.provided)

\* C15: every tick of the periodic timer re-invokes checkAuthentication;
\* whenever that check resolves with authenticated=false (any kind of
\* failure, a network error included) the browser is redirected to the login
\* page, and a tick whose check succeeds redirects nowhere.
C15_TickRedirectsOnFailure ==
    /\ (last.op = "sendVerify" /\ last.caller = "timer") =>
          (inflight # << >> /\ inflight[Len(inflight)] = Req("verify", "timer"))
    /\ (Verified("timer") /\ hasWindow) =>
          /\ ~last.threw
          /\ ~last.result.authenticated =>
                (last.nav # NoNav /\ last.nav.path \in LoginPaths)
          /\ last.result.authenticated => last.nav = NoNav

\* a tick's check was rejected by the network and the browser was sent to
\* the login page
C15_Witness ==
    /\ Verified("timer")
    /\ hasWindow
    /\ last.resp.kind = "reject"
    /\ last.before.user # Null
    /\ last.nav.path \in LoginPaths

\* a tick's check succeeded and nothing was navigated
C15_WitnessSuccess ==
    /\ Verified("timer")
    /\ hasWindow
    /\ last.result.authenticated
    /\ last.nav = NoNav

\* C16: the hook's logout() delegates to authClient.logout() and, once that
\* call has settled, the hook's user is null and isAuthenticated is false,
\* whether the remote logout succeeded or failed.
C16_HookLogoutClearsUser ==
    (LoggedOut /\ last.caller = "hook") =>
        /\ user = Null
        /\ token = Null
        /\ storage = Null
        /\ last.nav.path \in LoginPaths
        /\ ~last.threw
        /\ mounted = "mounted" =>
              (hUser = Null /\ ~UseAuthReturn(hUser, isLoading, error).isAuthenticated)

\* the hook's logout settled after the request failed, while the client had
\* a user cached
C16_Witness ==
    /\ LoggedOut
    /\ last.caller = "hook"
    /\ last.outcome \in {"notok", "reject"}
    /\ last.before.user # Null
    /\ mounted = "mounted"
    /\ hUser = Null

\* C19: outside a browser (no window) every storage and navigation action
\* of AuthClient is a no-op that does not throw: constructor, setToken,
\* clearToken, initializeFromUrl, redirectToLogin, logout and a failing
\* periodic tick change no local storage and navigate nowhere.
C19_Original ==
    ~hasWindow =>
        /\ ~last.threw
        /\ last.nav = NoNav
        /\ storage = Null

\* C20: redirectToLogin(callbackUrl?) navigates to /auth/users/login of the
\* service, with ?callbackUrl=<encoded callback> exactly when a callbackUrl is
\* given and to the bare login URL when not; logout navigates to the same
\* login path (as the route guard does).
C20_Original ==
    /\ (last.op = "redirectToLogin" /\ hasWindow) =>
          last.nav = Url("/auth/users/login",
                         IF last.arg # Null THEN encodeURIComponent(last.arg)
                         ELSE Null)
    /\ (LoggedOut /\ hasWindow) => last.nav = Url("/auth/users/login", Null)

\* the token a settled check leaves, given the token it found: the answer's
\* on success with a token, none after a 401 answer, else the one it found
TokenWrittenBy(l) ==
    IF version = "token" /\ l.result.authenticated /\ l.result.token # Null
        THEN l.result.token
    ELSE IF version = "token" /\ ~l.result.authenticated
            /\ l.resp.kind = "object" /\ l.resp.status = 401
        THEN Null
    ELSE l.before.token

\* C21: with two checkAuthentication calls in flight at once (a periodic and
\* a user-triggered one), the cached user and token after both have resolved
\* are those the answer processed last wrote, whatever the order in which
\* the requests were issued: each answer overwrites what the one before left.
C21_LastWriteWins ==
    last.op = "verify" =>
        /\ user = IF last.result.authenticated THEN last.result.user ELSE Null
        /\ last.result.authenticated => last.result.user = last.resp.body.user
        /\ token = TokenWrittenBy(last)

\* the user-triggered check, issued after a periodic one that is still
\* awaited, was answered first and replaced the cached user and token
C21_Witness ==
    /\ Verified("api")
    /\ last.overtaken > 0
    /\ inflight = <<Req("verify", "timer")>>
    /\ last.before.user # Null
    /\ user # Null
    /\ user # last.before.user
    /\ last.before.token # Null
    /\ token # Null
    /\ token # last.before.token

\* the periodic check was answered last and replaced what the user-triggered
\* check had cached
C21_WitnessTimerLast ==
    /\ Verified("timer")
    /\ inflight = << >>
    /\ last.before.user # Null
    /\ user # Null
    /\ user # last.before.user

\* a check resolved in the step right after a logout() settled whose request
\* had been issued later than the check's
StaleAfterLogout ==
    /\ Verified("api")
    /\ last.after.op = "logout"
    /\ last.after.overtaken > 0

\* C22: a verify request issued before logout() and answered successfully
\* after logout() has finished is still applied: logout has completed and the
\* cached user is non-null again, and the token is stored again when the
\* stale answer carries one.
C22_StaleVerifyApplied ==
    (StaleAfterLogout /\ SuccessAnswer) =>
        /\ last.before.user = Null
        /\ last.before.token = Null
        /\ user = last.resp.body.user
        /\ user # Null
        /\ (version = "token" /\ last.resp.body.token # Null) =>
              /\ token = last.resp.body.token
              /\ hasWindow => storage = token

\* after logout() had cleared everything in a browser, the answer to an older
\* verify request brought the user and a token back
C22_Witness ==
    /\ StaleAfterLogout
    /\ SuccessAnswer
    /\ version = "token"
    /\ hasWindow
    /\ inflight = << >>
    /\ last.before.user = Null
    /\ last.before.storage = Null
    /\ user # Null
    /\ token # Null
    /\ storage = token

\* the same with an answer that carries no token: the user is back, no token
C22_WitnessNoToken ==
    /\ StaleAfterLogout
    /\ SuccessAnswer
    /\ last.resp.body.token = Null
    /\ user # Null
    /\ token = Null

\* C23: what checkAuthentication does to the token: success with a token in
\* the answer makes it that value; success without one leaves it; a 401
\* answer (with or without requiresRedirect) clears it; any other
\* non-success status and a network or parse exception leave it while the
\* user is cleared.  The request carries Authorization: Bearer <token>
\* exactly when a token was cached when the call was made.
C23_TokenEffectOfCheck ==
    /\ last.op = "sendVerify" => last.authorization = token
    /\ (last.op = "verify" /\ version = "token") =>
          /\ (SuccessAnswer /\ last.resp.body.token # Null) =>
                token = last.resp.body.token
          /\ (SuccessAnswer /\ last.resp.body.token = Null) =>
                token = last.before.token
          /\ (Answer401 /\ ~SuccessAnswer) => (token = Null /\ user = Null)
          /\ (~SuccessAnswer /\ ~Answer401) =>
                (token = last.before.token /\ user = Null)

\* a request of the token version went out with the cached token as bearer
C23_Witness ==
    /\ last.op = "sendVerify"
    /\ version = "token"
    /\ token \in Tokens
    /\ last.authorization = token

\* a 500 answer cleared the cached user and left the cached token
C23_WitnessOtherStatus ==
    /\ Verified("api")
    /\ version = "token"
    /\ last.resp.kind = "object"
    /\ last.resp.status = 500
    /\ last.before.user # Null
    /\ last.before.token # Null
    /\ user = Null
    /\ token = last.before.token

\* a success without a token left the cached token
C23_WitnessSuccessNoToken ==
    /\ Verified("api")
    /\ version = "token"
    /\ SuccessAnswer
    /\ last.resp.body.token = Null
    /\ last.before.token # Null
    /\ token = last.before.token

\* isLoading turns false only when a check of the hook settles
LoadingEndsWithCheck ==
    (isLoading /\ ~isLoading') => (last'.op = "verify" /\ last'.caller = "hook")

\* C24: in the hook isLoading is true from mount until the first check
\* resolves, and every invocation of checkAuth, once its request has settled,
\* ends with isLoading=false on every path: success, failure with a message,
\* the requiresRedirect early return, a thrown exception.
C24_LoadingUntilCheckSettles ==
    /\ [](/\ mounted = "initial" => isLoading
          /\ (last.op = "sendVerify" /\ last.caller = "hook") => isLoading
          /\ (Verified("hook") /\ mounted = "mounted") => ~isLoading)
    /\ [][LoadingEndsWithCheck]_vars

\* a check of the hook ended in the requiresRedirect early return with
\* isLoading false
C24_Witness ==
    /\ Verified("hook")
    /\ mounted = "mounted"
    /\ last.result.requiresRedirect
    /\ last.nav # NoNav
    /\ ~isLoading

\* a failed check of the hook, in a browser with the hook mounted
HookCheckFailed ==
    Verified("hook") /\ mounted = "mounted" /\ ~last.result.authenticated

\* C25 as stated: on a result with requiresRedirect the hook's checkAuth sets
\* user to null, calls redirectToLogin with the current full URL as callback
\* and leaves error null; on every other failed result error is the result's
\* message or "Not authenticated" and the hook issues no redirect.
C25_Original ==
    /\ (HookCheckFailed /\ last.result.requiresRedirect) =>
          /\ hUser = Null
          /\ last.nav.path \in LoginPaths
          /\ last.nav.callbackUrl = encodeURIComponent(PageHref)
          /\ error = Null
    /\ (HookCheckFailed /\ ~last.result.requiresRedirect) =>
          /\ error = OrElse(last.result.message, MsgNotAuthenticated)
          /\ last.nav = NoNav

\* the redirect path writes no error: error stays what it was when the
\* answer arrived
RedirectKeepsError ==
    (last'.op = "verify" /\ last'.caller = "hook" /\ mounted = "mounted"
       /\ last'.result.requiresRedirect) => error' = error

\* C25, amended: on a result with requiresRedirect the hook's checkAuth sets
\* user to null, calls redirectToLogin with the current full URL as callback
\* and records no error message: error is left as it was when the answer
\* arrived (null as checkAuth set it when called, unless an overlapping
\* checkAuth call failed meanwhile); on every other failed result error is
\* the result's message or "Not authenticated" and the hook issues no
\* redirect.
C25_RedirectRecordsNoError ==
    /\ [](/\ (HookCheckFailed /\ last.result.requiresRedirect) =>
                /\ hUser = Null
                /\ last.nav.path \in LoginPaths
                /\ last.nav.callbackUrl = encodeURIComponent(PageHref)
          /\ (HookCheckFailed /\ ~last.result.requiresRedirect) =>
                /\ hUser = Null
                /\ error = OrElse(last.result.message, MsgNotAuthenticated)
                /\ last.nav = NoNav)
    /\ [][RedirectKeepsError]_vars

\* the check made on mount got the cross-domain answer: the hook has no
\* user and no error and the browser was sent to login with the page's URL
C25_Witness ==
    /\ HookCheckFailed
    /\ last.result.requiresRedirect
    /\ last.result.message = "Session expired"
    /\ hUser = Null
    /\ error = Null
    /\ last.nav.callbackUrl = "https%3A%2F%2Fapp.example%2Fprofile%3Ftab%3D1"

\* C26: in a browser, after construction and after any sequence of setToken,
\* clearToken, initializeFromUrl, checkAuthentication and logout, the token
\* client's in-memory token equals the local-storage entry auth_token.
C26_TokenMirrorsStorage ==
    version = "token" /\ hasWindow => token = storage

\* setToken has replaced another token, in memory and in local storage
C26_Witness ==
    /\ version = "token" /\ hasWindow
    /\ last.op = "setToken"
    /\ last.before.token # Null /\ last.before.token # last.arg
    /\ token = last.arg /\ storage = last.arg

\* the callback's token has been taken from the URL into both places
C26_WitnessFromUrl ==
    /\ version = "token" /\ hasWindow
    /\ last.op = "initializeFromUrl" /\ last.returned = TRUE
    /\ token # Null /\ token # last.before.token /\ token = storage

\* a check of the hook is in flight
HookCheckInFlight == \E i \in 1..Len(inflight) : inflight[i] = Req("verify", "hook")

\* the hook shows a user and a failure message together
UserWithError == hUser # Null /\ error # Null

\* C27 as stated: in the hook, under any interleaving of checkAuth and logout
\* calls, user non-null and error non-null never hold together once no check
\* is in flight.
C27_Original ==
    (mounted = "mounted" /\ ~HookCheckInFlight) => ~UserWithError

\* user and error come to hold together only when a successful answer
\* arrives while error holds a message, which the success path leaves
UserWithErrorOnlyByOvertakenFailure ==
    /\ (UserWithError' /\ ~UserWithError) =>
          /\ last'.op = "verify" /\ last'.caller = "hook"
          /\ last'.result.authenticated
          /\ hUser = Null
          /\ error # Null /\ error' = error
    /\ (last'.op = "sendVerify" /\ last'.caller = "hook") => error' = Null

\* C27, amended: every failed check and every logout of the hook leaves user
\* null, and a checkAuth call resets error; user non-null and error non-null
\* hold together only after a successful answer arrived while error held the
\* message of a check that failed after this one was called (two checkAuth
\* calls overlapped), and then until the next checkAuth call.
C27_UserWithErrorOnlyAfterOverlap ==
    /\ []((mounted = "mounted" /\ last.caller = "hook" /\
            (LoggedOut \/ (last.op = "verify" /\ ~last.result.authenticated)))
              => hUser = Null)
    /\ [][UserWithErrorOnlyByOvertakenFailure]_vars

\* a check answered with a failure while another was in flight, which then
\* succeeded: the hook shows the user and the failure message, nothing in
\* flight
C27_Witness ==
    /\ Verified("hook") /\ mounted = "mounted"
    /\ last.result.authenticated
    /\ hUser = last.result.user
    /\ error = MsgNetwork
    /\ UserWithError
    /\ inflight = <<>>

\* C28 as stated: whenever no request is in flight, the hook's user equals the
\* client's cached user, after any sequence of hook checkAuth, hook logout,
\* timer ticks and Logout-button logouts; isAuthenticated is never true while
\* the client's cached user is null.
C28_Original ==
    /\ (mounted = "mounted" /\ inflight = <<>>) => hUser = user
    /\ (mounted = "mounted" /\ hUser # Null) => user # Null

\* a timer tick and the Logout button write the client's cache only
OnlyHookCallsWriteHookUser ==
    last'.caller \in {"timer", "button"} => hUser' = hUser

\* C28, amended: right after a checkAuth or logout of the mounted hook
\* settles, the hook's user equals the client's cached user; the answer to a
\* timer tick and a logout by the Logout button change the client's cached
\* user and leave the hook's, so after a failed tick or a button logout
\* isAuthenticated stays true while the client's cached user is null (after
\* a button logout until the hook's logout, sent by the same click, settles).
C28_HookUserFollowsHookCalls ==
    /\ []((mounted = "mounted" /\ last.caller = "hook" /\
            last.op \in {"verify", "logout"}) => hUser = user)
    /\ [][OnlyHookCallsWriteHookUser]_vars

\* the hook's check has just set both users to the answer's user
C28_Witness ==
    /\ Verified("hook") /\ mounted = "mounted"
    /\ last.result.authenticated
    /\ hUser # Null /\ hUser = user
    /\ last.before.user # user

\* a tick failed: the client's cached user is null, the hook still shows one
C28_WitnessTick ==
    /\ Verified("timer") /\ ~last.result.authenticated
    /\ mounted = "mounted" /\ inflight = <<>>
    /\ user = Null /\ hUser # Null

\* the logouts of the Logout button that are in flight
ButtonLogoutsInFlight == {i \in 1..Len(inflight) : inflight[i] = Req("logout", "button")}

\* C29: each click of the Logout button sets isPending, and once
\* authClient.logout() settles it is false again; a button is pending only
\* while its logout is in flight, so one button never has two in flight (a
\* button rendered after another was discarded has requests of its own); the
\* error toast is shown exactly when the logout request failed and the
\* success toast exactly when it succeeded.
C29_Original ==
    /\ isPending => ButtonLogoutsInFlight # {}
    /\ (last.op = "sendLogout" /\ last.caller = "button") => isPending
    /\ (last.op = "logout" /\ last.caller = "button") =>
          /\ ButtonLogoutsInFlight = {} => ~isPending
          /\ last.view = ToastError <=> last.outcome \in {"notok", "reject"}
          /\ last.view = ToastSuccess <=> last.outcome = "ok"

\* a check of the callback page has just settled
CallbackSettled == last.op = "verify" /\ last.caller = "callback"

\* the check returned authenticated with a user
CallbackAuthenticated == last.result.authenticated /\ last.result.user # Null

\* the callbackUrl query parameter, "/profile" when absent or empty
CallbackTarget ==
    IF QueryGet(location, "callbackUrl") \in {Null, ""}
    THEN "/profile" ELSE QueryGet(location, "callbackUrl")

\* status leaves "loading" only when a check settles and never returns to it;
\* a settling check sets the one timeout of its status and no other
CallbackStep ==
    /\ (status = "loading" /\ status' # "loading") => CallbackSettled'
    /\ status # "loading" => status' # "loading"
    /\ CallbackSettled' =>
          /\ scheduled' = scheduled (+) SetToBag({last'.view})
          /\ last'.view.does = (IF status' = "success" THEN "href"
                                 ELSE "redirectToLogin")
    /\ ~CallbackSettled' => BagCardinality(scheduled') <= BagCardinality(scheduled)

\* C30: the auth callback page starts in status "loading" and, once its check
\* settles, is in "success" iff the check returned authenticated with a user
\* and in "error" otherwise; it never returns to "loading"; from "success" it
\* schedules navigation to the callbackUrl query parameter (default
\* "/profile"), from "error" redirectToLogin, never both for the same check.
C30_CallbackPage ==
    /\ [](/\ last.op = "init" => status = "loading"
          /\ CallbackSettled =>
                /\ status = (IF CallbackAuthenticated THEN "success" ELSE "error")
                /\ last.view = (IF CallbackAuthenticated
                                 THEN Timeout(1500, "href", CallbackTarget)
                                 ELSE Timeout(3000, "redirectToLogin", Null))
          /\ (last.op = "timeout" /\ last.view.does = "href") =>
                (last.arg = CallbackTarget /\ last.nav = NoNav)
          /\ (last.op = "timeout" /\ last.view.does = "redirectToLogin") =>
                (last.nav.path \in {"/auth/users/login", "/auth/user/login"}
                 /\ last.arg = Null))
    /\ [][CallbackStep]_vars

\* the check settled with a user on a page loaded with ?callbackUrl=/orders:
\* status "success", navigation to /orders scheduled and no login redirect
C30_Witness ==
    /\ CallbackSettled /\ CallbackAuthenticated
    /\ status = "success"
    /\ QueryGet(location, "callbackUrl") = "/orders"
    /\ scheduled = SetToBag({Timeout(1500, "href", "/orders")})

\* the success timeout of a page loaded without callbackUrl has fired
C30_WitnessDefault ==
    /\ last.op = "timeout" /\ last.arg = "/profile"
    /\ QueryGet(location, "callbackUrl") = Null
    /\ status = "success"

\* the check failed: status "error" and the login redirect scheduled alone
C30_WitnessError ==
    /\ CallbackSettled /\ ~CallbackAuthenticated
    /\ status = "error"
    /\ scheduled = SetToBag({Timeout(3000, "redirectToLogin", Null)})

====
